---- MODULE Spec2Model ----
(***************************************************************************)
(* Model of the terrain subsystem of bevy_procedural_planet:               *)
(*   - ChunkHash, the bit-packed chunk identity   (terrain/cube_tree.rs)   *)
(*   - QuadTreeNode, the generic quadtree         (math/quad_tree.rs)      *)
(*   - CubeTree, six face quadtrees + refinement  (terrain/cube_tree.rs)   *)
(*   - ChunkMeshBuilder, the mesh of one chunk    (terrain/mesh.rs)        *)
(*   - chunk-cache reconciliation and its systems (terrain/mod.rs)         *)
(*                                                                         *)
(* Specifications:                                                         *)
(*   SpecHash       ChunkHash::new on sampled inputs, then up to two hash  *)
(*                  operations applied to the result                       *)
(*   SpecHashChain  the hashes of two quadrant sequences, level by level   *)
(*   SpecQuad       QuadTreeNode::new, then subdivisions and inserts       *)
(*   SpecCube       CubeTree::new, then inserts of viewer positions        *)
(*   SpecCubeDeep   SpecCube on a body large enough to pass depth 63       *)
(*   SpecCubeWide   SpecCube on bodies from tiny to large, also seen from  *)
(*                  afar                                                   *)
(*   SpecMesh       ChunkMeshBuilder::new, then one build                  *)
(*   SpecWorld      one body, one viewer and the systems of TerrainPlugin  *)
(*   SpecWorldFair  SpecWorld with handle_despawn_chunks kept running      *)
(*   SpecTwin       generate_meshes over leaves that share a hash          *)
(*   SpecBodies     two bodies, one viewer, and the triggers of the passes *)
(***************************************************************************)
EXTENDS Integers, Sequences, FiniteSets, TLC

VARIABLES
    debug_assertions,   \* build profile: TRUE = debug_assert! is compiled in
    f64,                \* build feature: TRUE = the `f64` feature (Scalar is f64)
    hPhase,             \* SpecHash: "idle" | "input" | "built" | "applied" | "chained";
                        \* SpecHashChain: "chain"
    hIn,                \* SpecHash: the arguments handed to ChunkHash::new;
                        \* SpecHashChain: the axis and the two quadrant sequences
    hRecv,              \* SpecHash: the receiver of the last operation
    hOp,                \* SpecHash: the last operation and its argument
    hCur,               \* SpecHash: the current result ([panic, val]);
                        \* SpecHashChain: the hashes of the two sequences
    qTree,              \* SpecQuad: the quadtree (a QuadTreeNode)
    qIn,                \* SpecQuad: the arguments handed to QuadTreeNode::new
    qOp,                \* SpecQuad: the last call: name, node position, argument, receiver
    qPanic,             \* SpecQuad: TRUE once a call has panicked
    cRadius,            \* SpecCube: the radius of the body
    cTree,              \* SpecCube: the body's CubeTree
    cOp,                \* SpecCube: the last call: name, viewer position, what came before,
                        \* and the receiver as it was before the call
    mBuilder,           \* SpecMesh: the ChunkMeshBuilder
    mBounds,            \* SpecMesh: the bounds handed to the last build
    mMesh,              \* SpecMesh: what the last build returned
    wTree,              \* SpecWorld: the CubeTree component of the body
    wCache,             \* SpecWorld: the ChunkCache component of the body
                        \* (SpecBodies: wTree and wCache hold one value per body)
    wChunks,            \* SpecWorld: the chunk entities ever spawned, by entity id
    wPass,              \* SpecWorld: the last GenerateMeshes observed: its number, its
                        \* target, the surviving hashes and the commands it issued
    wPrev,              \* SpecWorld: prev_position of track_target_position
    wTarget,            \* SpecWorld: the position of the viewer
    wPolled             \* SpecWorld: the entities whose job results wait in the commands
                        \* of handle_chunk_generation_tasks

hashVars == <<hPhase, hIn, hRecv, hOp, hCur>>

quadVars == <<qTree, qIn, qOp, qPanic>>

buildVars == <<debug_assertions, f64>>

cubeVars == <<cRadius, cTree, cOp>>

meshVars == <<mBuilder, mBounds, mMesh>>

worldVars == <<wTree, wCache, wChunks, wPass, wPrev, wTarget, wPolled>>

vars == <<buildVars, hashVars, quadVars, cubeVars, meshVars, worldVars>>

(***************************************************************************)
(* u32 arithmetic.  A u32 is [top, low]: top is bit 31 and low the number  *)
(* of bits 0..30.  Shifts discard what leaves the 32-bit word, as Rust's   *)
(* << and >> do on u32.                                                    *)
(***************************************************************************)
Pow2(n) == 2 ^ n

Low31 == Pow2(30) + (Pow2(30) - 1)

\* the u32 of a natural number below 2^31
U32(n) == [top |-> 0, low |-> n]

\* the number of a u32 whose bit 31 is clear
ToNat(x) == x.low

RECURSIVE AndNat(_, _)
AndNat(a, b) ==
    IF a = 0 \/ b = 0 THEN 0
    ELSE ((a % 2) * (b % 2)) + 2 * AndNat(a \div 2, b \div 2)

RECURSIVE OrNat(_, _)
OrNat(a, b) ==
    IF a = 0 THEN b
    ELSE IF b = 0 THEN a
    ELSE (IF (a % 2) + (b % 2) > 0 THEN 1 ELSE 0) + 2 * OrNat(a \div 2, b \div 2)

BitAnd(x, y) == [top |-> x.top * y.top, low |-> AndNat(x.low, y.low)]

BitOr(x, y) == [top |-> IF x.top + y.top > 0 THEN 1 ELSE 0, low |-> OrNat(x.low, y.low)]

BitNot(x) == [top |-> 1 - x.top, low |-> Low31 - x.low]

\* x << k, for 0 <= k <= 31
Shl(x, k) ==
    IF k = 0 THEN x
    ELSE [top |-> (x.low \div Pow2(31 - k)) % 2,
          low |-> (x.low % Pow2(31 - k)) * Pow2(k)]

\* x >> k, for 0 <= k <= 31
Shr(x, k) ==
    IF k = 0 THEN x
    ELSE [top |-> 0, low |-> (x.low \div Pow2(k)) + (x.top * Pow2(31 - k))]

(***************************************************************************)
(* Axis and Quadrant, with their #[repr(u8)] discriminants.                *)
(***************************************************************************)
Axis == {"X", "Y", "Z", "NegX", "NegY", "NegZ"}

Axis_ALL == <<"X", "Y", "Z", "NegX", "NegY", "NegZ">>

AxisValue(a) ==
    CASE a = "X" -> 0 [] a = "Y" -> 1 [] a = "Z" -> 2
      [] a = "NegX" -> 3 [] a = "NegY" -> 4 [] a = "NegZ" -> 5

\* From<u32> for Axis; a value above 5 is panic!("invalid face")
Axis_from(n) ==
    CASE n = 0 -> "X" [] n = 1 -> "Y" [] n = 2 -> "Z"
      [] n = 3 -> "NegX" [] n = 4 -> "NegY" [] n = 5 -> "NegZ"
      [] OTHER -> "invalid face"

Quadrant == {"ROOT", "SW", "SE", "NW", "NE"}

Quadrant_ALL == <<"SW", "SE", "NW", "NE">>

QuadrantValue(q) ==
    CASE q = "ROOT" -> 0 [] q = "SW" -> 1 [] q = "SE" -> 2
      [] q = "NW" -> 3 [] q = "NE" -> 4

\* From<..> for Quadrant; a value above 4 is panic!("invalid quadrant")
Quadrant_from(n) ==
    CASE n = 0 -> "ROOT" [] n = 1 -> "SW" [] n = 2 -> "SE"
      [] n = 3 -> "NW" [] n = 4 -> "NE" [] OTHER -> "invalid quadrant"

(***************************************************************************)
(* ChunkHash(u32).  A result is [panic |-> BOOLEAN, val |-> u32]; val is   *)
(* the zero word when the call panicked.                                   *)
(***************************************************************************)
Zero32 == U32(0)

Ok(x) == [panic |-> FALSE, val |-> x]

Panic == [panic |-> TRUE, val |-> Zero32]

\* bits of the quadrants of path from element i (1-based) on, OR-ed into hash
RECURSIVE PackPath(_, _, _)
PackPath(hash, path, i) ==
    IF i > Len(path) THEN hash
    ELSE PackPath(BitOr(hash, Shl(BitAnd(U32(QuadrantValue(path[i])), U32(7)),
                                  10 + ((i - 1) * 3))),
                  path, i + 1)

\* ChunkHash::new with the collider flag shifted into bit 8, the top depth bit
ChunkHash_new_flag8(axis, depth, collider, path) ==
    IF debug_assertions /\ ~(depth <= 63) THEN Panic
    ELSE LET h0 == BitAnd(U32(AxisValue(axis)), U32(7))
             h1 == BitOr(h0, Shl(BitAnd(U32(depth), U32(63)), 3))
             h2 == BitOr(h1, Shl(U32(IF collider THEN 1 ELSE 0), 8))
         IN  Ok(PackPath(h2, path, 1))

ChunkHash_new(axis, depth, collider, path) ==
    IF debug_assertions /\ ~(depth <= 63) THEN Panic
    ELSE LET h0 == BitAnd(U32(AxisValue(axis)), U32(7))
             h1 == BitOr(h0, Shl(BitAnd(U32(depth), U32(63)), 3))
             h2 == BitOr(h1, Shl(U32(IF collider THEN 1 ELSE 0), 9))
         IN  Ok(PackPath(h2, path, 1))

new_root(axis) == ChunkHash_new(axis, 0, FALSE, [i \in 1..7 |-> "ROOT"])

\* push_quadrant whose header mask is one bit short and loses the collider flag
push_quadrant_header9(self, new_quadrant) ==
    LET header_bits  == BitAnd(self, U32(511))
        path_bits    == BitAnd(Shr(self, 10), U32(8388607))
        shifted_path == Shl(path_bits, 3)
        new_path     == BitOr(shifted_path,
                              BitAnd(U32(QuadrantValue(new_quadrant)), U32(7)))
    IN  BitOr(header_bits, Shl(new_path, 10))

\* push_quadrant that also steps the depth field
push_quadrant_deeper(self, new_quadrant) ==
    LET header_bits  == BitAnd(self, U32(1023))
        path_bits    == BitAnd(Shr(self, 10), U32(8388607))
        shifted_path == Shl(path_bits, 3)
        new_path     == BitOr(shifted_path,
                              BitAnd(U32(QuadrantValue(new_quadrant)), U32(7)))
        pushed       == BitOr(header_bits, Shl(new_path, 10))
    IN  BitOr(BitAnd(pushed, BitNot(Shl(U32(63), 3))),
              Shl(BitAnd(U32(ToNat(BitAnd(Shr(self, 3), U32(63))) + 1), U32(63)), 3))

push_quadrant(self, new_quadrant) ==
    LET header_bits  == BitAnd(self, U32(1023))
        path_bits    == BitAnd(Shr(self, 10), U32(8388607))
        shifted_path == Shl(path_bits, 3)
        new_path     == BitOr(shifted_path,
                              BitAnd(U32(QuadrantValue(new_quadrant)), U32(7)))
    IN  BitOr(header_bits, Shl(new_path, 10))

depth_of(self) == ToNat(BitAnd(Shr(self, 3), U32(63)))

with_depth(self, depth) ==
    IF debug_assertions /\ ~(depth <= 63) THEN Panic
    ELSE Ok(BitOr(BitAnd(self, BitNot(Shl(U32(63), 3))),
                  Shl(BitAnd(U32(depth), U32(63)), 3)))

Min(a, b) == IF a < b THEN a ELSE b

increment_depth(self) == with_depth(self, Min(depth_of(self) + 1, 63))

\* with_collider that writes the flag one bit lower, into the depth field
with_collider_bit8(self, collider) ==
    BitOr(BitAnd(self, BitNot(Shl(U32(1), 8))),
          Shl(U32(IF collider THEN 1 ELSE 0), 8))

with_collider(self, collider) ==
    BitOr(BitAnd(self, BitNot(Shl(U32(1), 9))),
          Shl(U32(IF collider THEN 1 ELSE 0), 9))

axis_of(self) == Axis_from(ToNat(BitAnd(self, U32(7))))

collider_of(self) == ToNat(BitAnd(Shr(self, 9), U32(1))) # 0

path_of(self) ==
    [i \in 1..7 |-> Quadrant_from(ToNat(BitAnd(Shr(self, 10 + ((i - 1) * 3)), U32(7))))]

values_of(self) == <<axis_of(self), depth_of(self), path_of(self), collider_of(self)>>

(***************************************************************************)
(* Scalar: IEEE-754 binary floating point.  A value is [sgn, m, e] and     *)
(* stands for sgn * m * 2^e, with m the 24-bit significand (below 2^23     *)
(* only for subnormals, at e = EMin).  +, -, *, / and sqrt round to        *)
(* nearest, ties to even; overflow gives infinity.  Without the `f64`      *)
(* feature this is binary32 bit for bit; with it, Scalar is binary64, of   *)
(* which the model keeps the exponent range and rounds the significand to  *)
(* 24 bits.                                                                *)
(***************************************************************************)
Hidden == Pow2(23)

SigEnd == Pow2(24)

EMin == IF f64 THEN 0 - 1074 ELSE 0 - 149

EMax == IF f64 THEN 1023 - 23 ELSE 127 - 23

ScalarZero == [sgn |-> 1, m |-> 0, e |-> 0]

ScalarInf(s) == [sgn |-> s, m |-> Hidden, e |-> EMax + 1]

ScalarNaN == [sgn |-> 1, m |-> 0, e |-> 1]

IsNaN(a) == a.m = 0 /\ a.e = 1

IsInf(a) == a.e > EMax

\* the number of bits of n: the k with 2^(k-1) <= n < 2^k (n below 2^31)
BitLen(n) ==
    IF n < 32768
    THEN IF n < 128
         THEN IF n < 8
              THEN IF n < 2
                   THEN IF n < 1
                        THEN 0
                        ELSE 1
                   ELSE IF n < 4
                        THEN 2
                        ELSE 3
              ELSE IF n < 32
                   THEN IF n < 16
                        THEN 4
                        ELSE 5
                   ELSE IF n < 64
                        THEN 6
                        ELSE 7
         ELSE IF n < 2048
              THEN IF n < 512
                   THEN IF n < 256
                        THEN 8
                        ELSE 9
                   ELSE IF n < 1024
                        THEN 10
                        ELSE 11
              ELSE IF n < 8192
                   THEN IF n < 4096
                        THEN 12
                        ELSE 13
                   ELSE IF n < 16384
                        THEN 14
                        ELSE 15
    ELSE IF n < 8388608
         THEN IF n < 524288
              THEN IF n < 131072
                   THEN IF n < 65536
                        THEN 16
                        ELSE 17
                   ELSE IF n < 262144
                        THEN 18
                        ELSE 19
              ELSE IF n < 2097152
                   THEN IF n < 1048576
                        THEN 20
                        ELSE 21
                   ELSE IF n < 4194304
                        THEN 22
                        ELSE 23
         ELSE IF n < 134217728
              THEN IF n < 33554432
                   THEN IF n < 16777216
                        THEN 24
                        ELSE 25
                   ELSE IF n < 67108864
                        THEN 26
                        ELSE 27
              ELSE IF n < 536870912
                   THEN IF n < 268435456
                        THEN 28
                        ELSE 29
                   ELSE IF n < 1073741824
                        THEN 30
                        ELSE 31

ScalarPack(s, q, e) ==
    IF q = 0 THEN ScalarZero
    ELSE IF q = SigEnd
         THEN (IF e + 1 > EMax THEN ScalarInf(s) ELSE [sgn |-> s, m |-> Hidden, e |-> e + 1])
         ELSE (IF e > EMax THEN ScalarInf(s) ELSE [sgn |-> s, m |-> q, e |-> e])

ScalarPacked(s, qe) == ScalarPack(s, qe[1], qe[2])

\* rounds sgn * (m + sticky fraction) * 2^e to the nearest representable value
ScalarRound(s, m, e, sticky) ==
    IF m = 0 THEN ScalarZero
    ELSE LET Cut(q, r, half, e1) ==
                 <<IF r > half \/ (r = half /\ (sticky \/ q % 2 = 1)) THEN q + 1 ELSE q, e1>>
             By(sh) ==
                 IF sh <= 0 THEN <<m * Pow2(0 - sh), e + sh>>
                 ELSE IF sh > 31 THEN <<0, EMin>>
                 ELSE IF sh = 31
                      THEN (IF m > Pow2(30) \/ (m = Pow2(30) /\ sticky)
                            THEN <<1, EMin>> ELSE <<0, EMin>>)
                 ELSE Cut(m \div Pow2(sh), m % Pow2(sh), Pow2(sh - 1), e + sh)
             Shift(sh0) == By(IF e + sh0 < EMin THEN EMin - e ELSE sh0)
         IN  ScalarPacked(s, Shift(BitLen(m) - 24))

\* a nonzero finite value with its significand shifted up to 24 bits
ScalarNorm(a) ==
    IF a.m >= Hidden THEN a
    ELSE LET Up(k) == [sgn |-> a.sgn, m |-> a.m * Pow2(k), e |-> a.e - k]
         IN  Up(24 - BitLen(a.m))

ScalarFromInt(n) == ScalarRound(IF n < 0 THEN 0 - 1 ELSE 1, IF n < 0 THEN 0 - n ELSE n, 0, FALSE)

\* n * 2^k
ScalarOf(n, k) == ScalarRound(IF n < 0 THEN 0 - 1 ELSE 1, IF n < 0 THEN 0 - n ELSE n, k, FALSE)

ScalarNeg(a) == IF a.m = 0 THEN a ELSE [sgn |-> 0 - a.sgn, m |-> a.m, e |-> a.e]

\* ScalarRound of <<sign, significand, exponent, sticky>>
ScalarRounded(t) == ScalarRound(t[1], t[2], t[3], t[4])

ScalarAddFinite(hi, lo) ==
    LET Near(M) == <<IF M < 0 THEN 0 - 1 ELSE 1, IF M < 0 THEN 0 - M ELSE M, lo.e, FALSE>>
        Far(A, B, st) ==
            <<hi.sgn,
              IF hi.sgn = lo.sgn THEN A + B
              ELSE IF st THEN A - B - 1 ELSE A - B,
              hi.e - 6, st>>
        Gap(d) ==
            IF d <= 6 THEN Near(hi.sgn * hi.m * Pow2(d) + lo.sgn * lo.m)
            ELSE IF d - 6 >= 24 THEN Far(hi.m * Pow2(6), 0, TRUE)
            ELSE Far(hi.m * Pow2(6), lo.m \div Pow2(d - 6), lo.m % Pow2(d - 6) # 0)
    IN  ScalarRounded(Gap(hi.e - lo.e))

ScalarAdd(a, b) ==
    IF IsNaN(a) \/ IsNaN(b) THEN ScalarNaN
    ELSE IF IsInf(a) THEN (IF IsInf(b) /\ a.sgn # b.sgn THEN ScalarNaN ELSE a)
    ELSE IF IsInf(b) THEN b
    ELSE IF a.m = 0 THEN b
    ELSE IF b.m = 0 THEN a
    ELSE ScalarAddFinite(IF a.e >= b.e THEN a ELSE b, IF a.e >= b.e THEN b ELSE a)

ScalarSub(a, b) == ScalarAdd(a, ScalarNeg(b))

ScalarMulFinite(a, b) ==
    LET Sum(hi, midbits, lowbits) ==
            <<a.sgn * b.sgn, hi * Pow2(6) + (midbits \div Pow2(6)), a.e + b.e + 18,
              midbits % Pow2(6) # 0 \/ lowbits # 0>>
        Mid(a1, b1, mid, low) ==
            Sum(a1 * b1 + (mid \div Pow2(12)), mid % Pow2(12), low % Pow2(12))
        Low(a1, a0, b1, b0, low) ==
            Mid(a1, b1, a1 * b0 + a0 * b1 + (low \div Pow2(12)), low)
        Limbs(a1, a0, b1, b0) == Low(a1, a0, b1, b0, a0 * b0)
    IN  ScalarRounded(Limbs(a.m \div Pow2(12), a.m % Pow2(12),
                            b.m \div Pow2(12), b.m % Pow2(12)))

ScalarMul(a, b) ==
    IF IsNaN(a) \/ IsNaN(b) THEN ScalarNaN
    ELSE IF IsInf(a) \/ IsInf(b)
         THEN (IF a.m = 0 \/ b.m = 0 THEN ScalarNaN ELSE ScalarInf(a.sgn * b.sgn))
    ELSE IF a.m = 0 \/ b.m = 0 THEN ScalarZero
    ELSE ScalarMulFinite(ScalarNorm(a), ScalarNorm(b))

\* long division, seven bits of the quotient per step
RECURSIVE DivDigits(_, _, _, _)
DivDigits(d, i, quot, rem) ==
    IF i = 0 THEN <<quot, rem>>
    ELSE DivDigits(d, i - 1, quot * Pow2(7) + ((rem * Pow2(7)) \div d), (rem * Pow2(7)) % d)

ScalarDivFinite(a, b) ==
    LET Done(qr) == <<a.sgn * b.sgn, qr[1], a.e - b.e - 28, qr[2] # 0>>
    IN  ScalarRounded(Done(DivDigits(b.m, 4, a.m \div b.m, a.m % b.m)))

ScalarDiv(a, b) ==
    IF IsNaN(a) \/ IsNaN(b) THEN ScalarNaN
    ELSE IF IsInf(a) THEN (IF IsInf(b) THEN ScalarNaN ELSE ScalarInf(a.sgn * b.sgn))
    ELSE IF IsInf(b) THEN ScalarZero
    ELSE IF b.m = 0 THEN (IF a.m = 0 THEN ScalarNaN ELSE ScalarInf(a.sgn))
    ELSE IF a.m = 0 THEN ScalarZero
    ELSE ScalarDivFinite(ScalarNorm(a), ScalarNorm(b))

\* the integer square root of m2 * 2^28, two bits of the radicand per step
RECURSIVE SqrtDigits(_, _, _, _)
SqrtDigits(m2, i, root, rem) ==
    IF i < 0 THEN <<root, rem>>
    ELSE LET Step(r, t) ==
                 IF r >= t THEN SqrtDigits(m2, i - 1, root * 2 + 1, r - t)
                 ELSE SqrtDigits(m2, i - 1, root * 2, r)
         IN  Step(rem * 4 + (IF i >= 14 THEN (m2 \div Pow2(2 * (i - 14))) % 4 ELSE 0),
                  root * 4 + 1)

ScalarSqrtFinite(a) ==
    LET Done(rr, e2) == <<1, rr[1], (e2 - 28) \div 2, rr[2] # 0>>
    IN  ScalarRounded(Done(SqrtDigits(IF a.e % 2 # 0 THEN a.m * 2 ELSE a.m, 26, 0, 0),
                           IF a.e % 2 # 0 THEN a.e - 1 ELSE a.e))

ScalarSqrt(a) ==
    IF IsNaN(a) THEN ScalarNaN
    ELSE IF a.m = 0 THEN a
    ELSE IF a.sgn < 0 THEN ScalarNaN
    ELSE IF IsInf(a) THEN a
    ELSE ScalarSqrtFinite(ScalarNorm(a))

ScalarMagLt(a, b) ==
    IF a.m = 0 THEN b.m # 0
    ELSE IF b.m = 0 THEN FALSE
    ELSE a.e < b.e \/ (a.e = b.e /\ a.m < b.m)

ScalarLt(a, b) ==
    /\ ~IsNaN(a) /\ ~IsNaN(b)
    /\ IF a.sgn # b.sgn THEN a.sgn < b.sgn
       ELSE IF a.sgn = 1 THEN ScalarMagLt(a, b) ELSE ScalarMagLt(b, a)

ScalarLe(a, b) == ~IsNaN(a) /\ ~IsNaN(b) /\ ~ScalarLt(b, a)

ScalarGt(a, b) == ScalarLt(b, a)

(***************************************************************************)
(* Vector2 and Rectangle (bevy Rect; DRect with the `f64` feature).        *)
(***************************************************************************)
ScalarMin(a, b) == IF ScalarLt(b, a) THEN b ELSE a

ScalarMax(a, b) == IF ScalarLt(a, b) THEN b ELSE a

\* 0.5
Half == [sgn |-> 1, m |-> Hidden, e |-> 0 - 24]

Vector2_ZERO == <<ScalarZero, ScalarZero>>

Vector2_splat(v) == <<v, v>>

from_corners(p0, p1) ==
    [min |-> <<ScalarMin(p0[1], p1[1]), ScalarMin(p0[2], p1[2])>>,
     max |-> <<ScalarMax(p0[1], p1[1]), ScalarMax(p0[2], p1[2])>>]

from_center_half_size(origin, half_size) ==
    [min |-> <<ScalarSub(origin[1], half_size[1]), ScalarSub(origin[2], half_size[2])>>,
     max |-> <<ScalarAdd(origin[1], half_size[1]), ScalarAdd(origin[2], half_size[2])>>]

rect_size(r) == <<ScalarSub(r.max[1], r.min[1]), ScalarSub(r.max[2], r.min[2])>>

rect_center(r) ==
    <<ScalarMul(ScalarAdd(r.min[1], r.max[1]), Half), ScalarMul(ScalarAdd(r.min[2], r.max[2]), Half)>>

rect_contains(r, pt) ==
    /\ ScalarLe(r.min[1], pt[1]) /\ ScalarLe(pt[1], r.max[1])
    /\ ScalarLe(r.min[2], pt[2]) /\ ScalarLe(pt[2], r.max[2])

\* `as usize` of a scalar: the integer part (zero for NaN and negatives)
ScalarToNat(a) ==
    IF a.m = 0 \/ a.sgn < 0 THEN 0
    ELSE IF a.e >= 0 THEN a.m * Pow2(a.e)
    ELSE IF a.e < 0 - 24 THEN 0
    ELSE a.m \div Pow2(0 - a.e)

(***************************************************************************)
(* QuadTreeNode<T>: Leaf {bounds, data} or Internal {bounds, children}.    *)
(* A call that may panic returns [panic, node].                            *)
(***************************************************************************)
Leaf(bounds, data) == [kind |-> "Leaf", bounds |-> bounds, data |-> data]

Internal(bounds, children) == [kind |-> "Internal", bounds |-> bounds, children |-> children]

NodeOk(n) == [panic |-> FALSE, node |-> n]

\* panic!("Cannot subdivide an internal node"): the node is left as it was
NodePanic(n) == [panic |-> TRUE, node |-> n]

QuadTreeNode_new(bounds, data) == Leaf(bounds, data)

\* subdivide_bounds with the SE and NW rectangles exchanged
subdivide_bounds_swapped(bounds) ==
    << <<"SW", from_corners(bounds.min, rect_center(bounds))>>,
       <<"SE", from_corners(<<bounds.min[1], rect_center(bounds)[2]>>,
                            <<rect_center(bounds)[1], bounds.max[2]>>)>>,
       <<"NW", from_corners(<<rect_center(bounds)[1], bounds.min[2]>>,
                            <<bounds.max[1], rect_center(bounds)[2]>>)>>,
       <<"NE", from_corners(rect_center(bounds), bounds.max)>> >>

\* the four quadrants of bounds around its center
subdivide_bounds_around(bounds, center) ==
    << <<"SW", from_corners(bounds.min, center)>>,
       <<"SE", from_corners(<<center[1], bounds.min[2]>>, <<bounds.max[1], center[2]>>)>>,
       <<"NW", from_corners(<<bounds.min[1], center[2]>>, <<center[1], bounds.max[2]>>)>>,
       <<"NE", from_corners(center, bounds.max)>> >>

subdivide_bounds(bounds) == subdivide_bounds_around(bounds, rect_center(bounds))

\* The closures handed to subdivide_with / insert_with in the tests, as data:
\*   "scale"  parent data times the quadrant's number (test_subdivide_with)
\*   "level"  parent data plus one
create_data(f, quadrant, child_bounds, parent_data) ==
    CASE f.kind = "scale" -> parent_data * QuadrantValue(quadrant)
      [] f.kind = "level" -> parent_data + 1

\* The closure handed to subdivide_recursive_with, as data:
\*   "width"  the child's width in whole units (test_subdivide_recursive_with)
\*   "depth"  the depth the child is created at
create_data_at(f, quadrant, current_depth, child_bounds, parent_data) ==
    CASE f.kind = "width" -> ScalarToNat(rect_size(child_bounds)[1])
      [] f.kind = "depth" -> current_depth + 1

\* The predicates handed to insert / insert_with, as data:
\*   "size"   the leaf is at most s wide
\*   "point"  the leaf is at most s wide or does not contain pt
predicate(p, bounds, data) ==
    CASE p.kind = "size"  -> ScalarLe(rect_size(bounds)[1], p.s)
      [] p.kind = "point" -> ScalarLe(rect_size(bounds)[1], p.s) \/ ~rect_contains(bounds, p.pt)

new_subdivided(bounds, data) ==
    LET Children(qbs) == Internal(bounds, [i \in 1..4 |-> Leaf(qbs[i][2], data)])
    IN  Children(subdivide_bounds(bounds))

\* subdivide that does not look at what the node is: an internal node gets
\* four fresh leaves in place of its children
subdivide_again(self) ==
    NodeOk(new_subdivided(self.bounds, IF self.kind = "Leaf" THEN self.data ELSE 0))

subdivide(self) ==
    IF self.kind = "Leaf"
    THEN LET Children(qbs) ==
                 NodeOk(Internal(self.bounds, [i \in 1..4 |-> Leaf(qbs[i][2], self.data)]))
         IN  Children(subdivide_bounds(self.bounds))
    ELSE NodePanic(self)

subdivided(self) ==
    IF self.kind = "Leaf"
    THEN LET Children(qbs) ==
                 NodeOk(Internal(self.bounds, [i \in 1..4 |-> Leaf(qbs[i][2], self.data)]))
         IN  Children(subdivide_bounds(self.bounds))
    ELSE NodePanic(self)

subdivide_with(self, f) ==
    IF self.kind = "Leaf"
    THEN LET Children(qbs) ==
                 NodeOk(Internal(self.bounds,
                    [i \in 1..4 |->
                        Leaf(qbs[i][2], create_data(f, qbs[i][1], qbs[i][2], self.data))]))
         IN  Children(subdivide_bounds(self.bounds))
    ELSE NodePanic(self)

subdivided_with(self, f) ==
    IF self.kind = "Leaf"
    THEN LET Children(qbs) ==
                 NodeOk(Internal(self.bounds,
                    [i \in 1..4 |->
                        Leaf(qbs[i][2], create_data(f, qbs[i][1], qbs[i][2], self.data))]))
         IN  Children(subdivide_bounds(self.bounds))
    ELSE NodePanic(self)

with_subdivisions_children(rs) == [i \in 1..4 |-> rs[i].node]

AnyPanic(rs) == \E i \in 1..4 : rs[i].panic

RECURSIVE subdivide_recursive_impl(_, _, _)
subdivide_recursive_impl(self, max_depth, current_depth) ==
    IF current_depth >= max_depth THEN NodeOk(self)
    ELSE LET Join(s, rs) ==
                 [panic |-> AnyPanic(rs),
                  node |-> Internal(s.node.bounds, with_subdivisions_children(rs))]
             Descend(s) ==
                 IF s.panic THEN s
                 ELSE Join(s, [i \in 1..4 |->
                                 subdivide_recursive_impl(s.node.children[i], max_depth,
                                                          current_depth + 1)])
         IN  Descend(subdivided(self))

\* subdivide_recursive that counts the receiver as one level already
subdivide_recursive_from1(self, max_depth) == subdivide_recursive_impl(self, max_depth, 1)

subdivide_recursive(self, max_depth) == subdivide_recursive_impl(self, max_depth, 0)

RECURSIVE subdivide_recursive_with_impl(_, _, _, _)
subdivide_recursive_with_impl(self, max_depth, current_depth, f) ==
    IF current_depth >= max_depth THEN NodeOk(self)
    ELSE IF self.kind # "Leaf" THEN NodePanic(self)
    ELSE LET Join(rs) ==
                 [panic |-> AnyPanic(rs),
                  node |-> Internal(self.bounds, with_subdivisions_children(rs))]
             Descend(qbs) ==
                 Join([i \in 1..4 |->
                    subdivide_recursive_with_impl(
                        Leaf(qbs[i][2],
                             create_data_at(f, qbs[i][1], current_depth, qbs[i][2], self.data)),
                        max_depth, current_depth + 1, f)])
         IN  Descend(subdivide_bounds(self.bounds))

subdivide_recursive_with(self, max_depth, f) ==
    subdivide_recursive_with_impl(self, max_depth, 0, f)

with_subdivisions(bounds, data, subdivisions) ==
    subdivide_recursive(Leaf(bounds, data), subdivisions)

RECURSIVE insert_impl(_, _)
insert_impl(self, p) ==
    IF self.kind = "Internal"
    THEN Internal(self.bounds, [i \in 1..4 |-> insert_impl(self.children[i], p)])
    ELSE IF predicate(p, self.bounds, self.data) THEN self
    ELSE insert_impl(subdivide(self).node, p)

insert(self, p) == insert_impl(self, p)

RECURSIVE insert_with_impl(_, _, _)
insert_with_impl(self, p, f) ==
    IF self.kind = "Internal"
    THEN Internal(self.bounds, [i \in 1..4 |-> insert_with_impl(self.children[i], p, f)])
    ELSE IF predicate(p, self.bounds, self.data) THEN self
    ELSE insert_with_impl(subdivided_with(self, f).node, p, f)

insert_with(self, p, f) == insert_with_impl(self, p, f)

\* gather_leaves: the leaves depth-first, children in SW, SE, NW, NE order
RECURSIVE gather_leaves(_)
gather_leaves(self) ==
    IF self.kind = "Leaf" THEN <<self>>
    ELSE gather_leaves(self.children[1]) \o gather_leaves(self.children[2])
            \o gather_leaves(self.children[3]) \o gather_leaves(self.children[4])

(***************************************************************************)
(* Positions in a tree: a node is addressed by the child indexes from the  *)
(* root (&mut access to a child, as the tests take it by pattern match).   *)
(***************************************************************************)
RECURSIVE Positions(_)
Positions(t) ==
    IF t.kind = "Leaf" THEN {<<>>}
    ELSE {<<>>} \cup UNION { { <<i>> \o at : at \in Positions(t.children[i]) } : i \in 1..4 }

RECURSIVE NodeAt(_, _)
NodeAt(t, at) == IF at = <<>> THEN t ELSE NodeAt(t.children[Head(at)], Tail(at))

RECURSIVE ReplaceAt(_, _, _)
ReplaceAt(t, at, n) ==
    IF at = <<>> THEN n
    ELSE Internal(t.bounds,
                  [i \in 1..4 |-> IF i = Head(at) THEN ReplaceAt(t.children[i], Tail(at), n)
                                  ELSE t.children[i]])

\* the leaves of a tree with the depth of each below the tree's root
RECURSIVE LeavesWithDepth(_, _)
LeavesWithDepth(t, d) ==
    IF t.kind = "Leaf" THEN <<[leaf |-> t, depth |-> d]>>
    ELSE LeavesWithDepth(t.children[1], d + 1) \o LeavesWithDepth(t.children[2], d + 1)
            \o LeavesWithDepth(t.children[3], d + 1) \o LeavesWithDepth(t.children[4], d + 1)

InternalPositions(t) == { at \in Positions(t) : NodeAt(t, at).kind = "Internal" }

\* the elements of a sequence of leaves
Range(seq) == { seq[i] : i \in 1..Len(seq) }

(***************************************************************************)
(* Vector (glam Vec3; DVec3 with the `f64` feature): <<x, y, z>>, each     *)
(* operation in glam's order of evaluation.                                *)
(***************************************************************************)
\* the literals of the source: 1.0, 2.0, 3.0, 4.0
ScalarOne == [sgn |-> 1, m |-> Hidden, e |-> 0 - 23]

ScalarTwo == [sgn |-> 1, m |-> Hidden, e |-> 0 - 22]

ScalarThree == [sgn |-> 1, m |-> 3 * Pow2(22), e |-> 0 - 22]

ScalarFour == [sgn |-> 1, m |-> Hidden, e |-> 0 - 21]

Vector_ZERO == <<ScalarZero, ScalarZero, ScalarZero>>

Vector_from(axis) ==
    CASE axis = "X"    -> <<ScalarOne, ScalarZero, ScalarZero>>
      [] axis = "Y"    -> <<ScalarZero, ScalarOne, ScalarZero>>
      [] axis = "Z"    -> <<ScalarZero, ScalarZero, ScalarOne>>
      [] axis = "NegX" -> <<ScalarNeg(ScalarOne), ScalarZero, ScalarZero>>
      [] axis = "NegY" -> <<ScalarZero, ScalarNeg(ScalarOne), ScalarZero>>
      [] axis = "NegZ" -> <<ScalarZero, ScalarZero, ScalarNeg(ScalarOne)>>

Vector_yzx(v) == <<v[2], v[3], v[1]>>

Vector_cross(a, b) ==
    <<ScalarSub(ScalarMul(a[2], b[3]), ScalarMul(b[2], a[3])),
      ScalarSub(ScalarMul(a[3], b[1]), ScalarMul(b[3], a[1])),
      ScalarSub(ScalarMul(a[1], b[2]), ScalarMul(b[1], a[2]))>>

Vector_add(a, b) == <<ScalarAdd(a[1], b[1]), ScalarAdd(a[2], b[2]), ScalarAdd(a[3], b[3])>>

Vector_sub(a, b) == <<ScalarSub(a[1], b[1]), ScalarSub(a[2], b[2]), ScalarSub(a[3], b[3])>>

Vector_mul(a, s) == <<ScalarMul(a[1], s), ScalarMul(a[2], s), ScalarMul(a[3], s)>>

Vector_dot(a, b) ==
    ScalarAdd(ScalarAdd(ScalarMul(a[1], b[1]), ScalarMul(a[2], b[2])), ScalarMul(a[3], b[3]))

Vector_length(a) == ScalarSqrt(Vector_dot(a, a))

Vector_distance(a, b) == Vector_length(Vector_sub(a, b))

(***************************************************************************)
(* helpers.rs: the coordinate frame of each face and the cube-to-sphere    *)
(* warp.                                                                   *)
(***************************************************************************)
\* (axis_normal, local_x, local_y) with local_x = axis_normal x local_y
coordinate_frame(axis_normal, local_y) ==
    <<axis_normal, Vector_cross(axis_normal, local_y), local_y>>

AXIS_COORDINATE_FRAMES(axis) == coordinate_frame(Vector_from(axis), Vector_yzx(Vector_from(axis)))

\* one component of unit_cube_to_sphere: a * sqrt(1 - b2/2 - c2/2 + b2*c2/3)
unit_cube_to_sphere_component(a, b2, c2) ==
    ScalarMul(a, ScalarSqrt(
        ScalarAdd(ScalarSub(ScalarSub(ScalarOne, ScalarDiv(b2, ScalarTwo)),
                            ScalarDiv(c2, ScalarTwo)),
                  ScalarDiv(ScalarMul(b2, c2), ScalarThree))))

\* unit_cube_to_sphere given the squares x2, y2, z2 of the components
unit_cube_to_sphere_squared(pos, x2, y2, z2) ==
    <<unit_cube_to_sphere_component(pos[1], y2, z2),
      unit_cube_to_sphere_component(pos[2], z2, x2),
      unit_cube_to_sphere_component(pos[3], x2, y2)>>

unit_cube_to_sphere(pos) ==
    unit_cube_to_sphere_squared(pos, ScalarMul(pos[1], pos[1]), ScalarMul(pos[2], pos[2]),
                                ScalarMul(pos[3], pos[3]))

\* center_on_sphere given the face's frame (axis_normal, local_x, local_y)
center_on_frame(frame, radius, bounds) ==
    Vector_mul(unit_cube_to_sphere(
        Vector_add(Vector_add(frame[1],
                Vector_mul(frame[2],
                    ScalarMul(ScalarTwo,
                        ScalarDiv(ScalarAdd(bounds.min[1], bounds.max[1]),
                                  ScalarMul(radius, ScalarFour))))),
            Vector_mul(frame[3],
                ScalarMul(ScalarTwo,
                    ScalarDiv(ScalarAdd(bounds.min[2], bounds.max[2]),
                              ScalarMul(radius, ScalarFour)))))),
        radius)

center_on_sphere(axis, radius, bounds) ==
    center_on_frame(AXIS_COORDINATE_FRAMES(axis), radius, bounds)

(***************************************************************************)
(* ChunkData {center, hash} and CubeTree {radius, faces}; faces[i] is the  *)
(* face of Axis_ALL[i].                                                    *)
(***************************************************************************)
ChunkData_new(axis, bounds, radius, hash) ==
    [center |-> center_on_sphere(axis, radius, bounds), hash |-> hash]

\* 24.0
MIN_SIZE == [sgn |-> 1, m |-> 3 * Pow2(22), e |-> 0 - 19]

\* 1.5
THRESHOLD == [sgn |-> 1, m |-> 3 * Pow2(22), e |-> 0 - 23]

\* the closures with the child of a refined leaf stamped its parent's depth
chunk_create_same_depth(f, quadrant, bounds, data) ==
    ChunkData_new(f.axis, bounds, f.radius,
                  push_quadrant(CASE f.kind = "face"  -> with_depth(f.hash, 1).val
                                  [] f.kind = "chunk" -> data.hash,
                                quadrant))

\* The closures of CubeTree::new and CubeTree::insert, as data:
\*   "face"   the child of a face's root: hash.with_depth(1).push_quadrant(quadrant)
\*   "chunk"  the child of a refined leaf:
\*            data.hash.increment_depth().push_quadrant(quadrant)
chunk_create(f, quadrant, bounds, data) ==
    ChunkData_new(f.axis, bounds, f.radius,
                  push_quadrant(CASE f.kind = "face"  -> with_depth(f.hash, 1).val
                                  [] f.kind = "chunk" -> increment_depth(data.hash).val,
                                quadrant))

\* The predicate of CubeTree::insert: whether refinement stops at the leaf, and
\* the leaf's data as the predicate leaves it.
\* the predicate with the distance test turned round: a leaf is kept when the
\* viewer is near and refined when the viewer is far
chunk_predicate_sized_far(p, size, data) ==
    IF ScalarLe(size, MIN_SIZE)
    THEN [stop |-> TRUE,
          data |-> [center |-> data.center, hash |-> with_collider(data.hash, TRUE)]]
    ELSE IF ScalarGt(Vector_distance(data.center, p.point), ScalarMul(size, THRESHOLD))
    THEN [stop |-> FALSE, data |-> data]
    ELSE [stop |-> TRUE, data |-> data]

\* the predicate that stops at the size floor without raising the collider flag
chunk_predicate_sized_unflagged(p, size, data) ==
    IF ScalarLe(size, MIN_SIZE) THEN [stop |-> TRUE, data |-> data]
    ELSE IF ScalarGt(Vector_distance(data.center, p.point), ScalarMul(size, THRESHOLD))
    THEN [stop |-> TRUE, data |-> data]
    ELSE [stop |-> FALSE, data |-> data]

\* the predicate with the size floor at a quarter of MIN_SIZE
chunk_predicate_sized_low_floor(p, size, data) ==
    IF ScalarLe(size, ScalarMul(MIN_SIZE, ScalarMul(Half, Half)))
    THEN [stop |-> TRUE,
          data |-> [center |-> data.center, hash |-> with_collider(data.hash, TRUE)]]
    ELSE IF ScalarGt(Vector_distance(data.center, p.point), ScalarMul(size, THRESHOLD))
    THEN [stop |-> TRUE, data |-> data]
    ELSE [stop |-> FALSE, data |-> data]

chunk_predicate_sized(p, size, data) ==
    IF ScalarLe(size, MIN_SIZE)
    THEN [stop |-> TRUE,
          data |-> [center |-> data.center, hash |-> with_collider(data.hash, TRUE)]]
    ELSE IF ScalarGt(Vector_distance(data.center, p.point), ScalarMul(size, THRESHOLD))
    THEN [stop |-> TRUE, data |-> data]
    ELSE [stop |-> FALSE, data |-> data]

chunk_predicate(p, bounds, data) == chunk_predicate_sized(p, rect_size(bounds)[1], data)

\* QuadTreeNode::new_subdivided taking the constructor of the children's data
\* the child of quadrant qb[1] with bounds qb[2], its data made by f
chunk_child(f, qb, data) == Leaf(qb[2], chunk_create(f, qb[1], qb[2], data))

chunk_children(bounds, f, qbs, data) ==
    Internal(bounds, [i \in 1..4 |-> chunk_child(f, qbs[i], data)])

new_subdivided_with(bounds, f) == chunk_children(bounds, f, subdivide_bounds(bounds), 0)

\* QuadTreeNode::insert_mut: insert_with whose predicate may change the data
RECURSIVE insert_mut(_, _, _)
RECURSIVE insert_mut_leaf(_, _, _, _)
RECURSIVE insert_mut_children(_, _, _)
insert_mut(self, p, f) ==
    IF self.kind = "Internal"
    THEN insert_mut_children(self, p, f)
    ELSE insert_mut_leaf(self, p, f, chunk_predicate(p, self.bounds, self.data))

\* the leaf's turn: r is what the predicate answered
insert_mut_leaf(self, p, f, r) ==
    IF r.stop THEN Leaf(self.bounds, r.data)
    ELSE insert_mut_children(
             chunk_children(self.bounds, f, subdivide_bounds(self.bounds), r.data), p, f)

insert_mut_children(self, p, f) ==
    Internal(self.bounds, [i \in 1..4 |-> insert_mut(self.children[i], p, f)])

CubeTree_bounds(radius) == from_center_half_size(Vector2_ZERO, Vector2_splat(radius))

\* CubeTree::new that leaves each face a single root leaf
CubeTree_new_root_leaves(radius) ==
    [radius |-> radius,
     faces  |-> [i \in 1..6 |->
                    QuadTreeNode_new(CubeTree_bounds(radius),
                        ChunkData_new(Axis_ALL[i], CubeTree_bounds(radius), radius,
                                      new_root(Axis_ALL[i]).val))]]

CubeTree_new(radius) ==
    [radius |-> radius,
     faces  |-> [i \in 1..6 |->
                    new_subdivided_with(CubeTree_bounds(radius),
                        [kind |-> "face", axis |-> Axis_ALL[i], radius |-> radius,
                         hash |-> new_root(Axis_ALL[i]).val])]]

\* insert that refines the faces the tree already has
CubeTree_insert_in_place(self, point) ==
    [radius |-> self.radius,
     faces  |-> [i \in 1..6 |->
                    insert_mut(self.faces[i], [point |-> point],
                               [kind |-> "chunk", axis |-> Axis_ALL[i], radius |-> self.radius])]]

\* insert that starts every face from a single depth-0 root leaf and lets the
\* predicate decide whether the root is subdivided
CubeTree_insert_from_root_leaf(self, point) ==
    [radius |-> self.radius,
     faces  |-> [i \in 1..6 |->
                    insert_mut(CubeTree_new_root_leaves(self.radius).faces[i],
                               [point |-> point],
                               [kind |-> "chunk", axis |-> Axis_ALL[i],
                                radius |-> self.radius])]]

CubeTree_insert(self, point) ==
    [radius |-> self.radius,
     faces  |-> [i \in 1..6 |->
                    insert_mut(new_subdivided_with(CubeTree_bounds(self.radius),
                                   [kind |-> "face", axis |-> Axis_ALL[i],
                                    radius |-> self.radius,
                                    hash |-> new_root(Axis_ALL[i]).val]),
                               [point |-> point],
                               [kind |-> "chunk", axis |-> Axis_ALL[i],
                                radius |-> self.radius])]]

\* QuadTreeLeafIter: the stack holds the nodes still to visit, its top last;
\* an internal node is replaced by its children pushed in reverse, so that
\* the leaves come out depth-first in SW, SE, NW, NE order.
RECURSIVE QuadTreeLeafIter(_, _)
QuadTreeLeafIter(stack, out) ==
    IF stack = <<>> THEN out
    ELSE LET Pop(node, rest) ==
                 IF node.kind = "Leaf" THEN QuadTreeLeafIter(rest, Append(out, node))
                 ELSE QuadTreeLeafIter(rest \o <<node.children[4], node.children[3],
                                                node.children[2], node.children[1]>>, out)
         IN  Pop(stack[Len(stack)], SubSeq(stack, 1, Len(stack) - 1))

\* the CubeTree component of a body that has none yet
NoTree == [radius |-> ScalarZero, faces |-> <<>>]

\* the leaves of the six faces, face after face, by gather_leaves
CubeTree_leaves(self) ==
    gather_leaves(self.faces[1]) \o gather_leaves(self.faces[2]) \o gather_leaves(self.faces[3])
        \o gather_leaves(self.faces[4]) \o gather_leaves(self.faces[5])
        \o gather_leaves(self.faces[6])

\* CubeTreeIter: the leaves of the faces, face after face in index order
CubeTree_iter(self) ==
    QuadTreeLeafIter(<<self.faces[1]>>, <<>>) \o QuadTreeLeafIter(<<self.faces[2]>>, <<>>)
        \o QuadTreeLeafIter(<<self.faces[3]>>, <<>>) \o QuadTreeLeafIter(<<self.faces[4]>>, <<>>)
        \o QuadTreeLeafIter(<<self.faces[5]>>, <<>>) \o QuadTreeLeafIter(<<self.faces[6]>>, <<>>)

\* Option::None
None == [kind |-> "None"]

\* QuadTreeLeafIter::next that pushes the children in index order
RECURSIVE QuadTreeLeafIter_next_forward(_)
QuadTreeLeafIter_next_forward(stack) ==
    IF stack = <<>> THEN [stack |-> stack, item |-> None]
    ELSE IF stack[Len(stack)].kind = "Leaf"
    THEN [stack |-> SubSeq(stack, 1, Len(stack) - 1), item |-> stack[Len(stack)]]
    ELSE QuadTreeLeafIter_next_forward(
             SubSeq(stack, 1, Len(stack) - 1) \o stack[Len(stack)].children)

\* QuadTreeLeafIter::next: the stack as the call leaves it and what it returns
RECURSIVE QuadTreeLeafIter_next(_)
QuadTreeLeafIter_next(stack) ==
    IF stack = <<>> THEN [stack |-> stack, item |-> None]
    ELSE IF stack[Len(stack)].kind = "Leaf"
    THEN [stack |-> SubSeq(stack, 1, Len(stack) - 1), item |-> stack[Len(stack)]]
    ELSE QuadTreeLeafIter_next(
             SubSeq(stack, 1, Len(stack) - 1)
                 \o <<stack[Len(stack)].children[4], stack[Len(stack)].children[3],
                      stack[Len(stack)].children[2], stack[Len(stack)].children[1]>>)

\* QuadTreeLeafIterMut, run to its end: the children of an internal node are
\* appended in index order, so the last comes off the stack first
RECURSIVE QuadTreeLeafIterMut(_, _)
QuadTreeLeafIterMut(stack, out) ==
    IF stack = <<>> THEN out
    ELSE IF stack[Len(stack)].kind = "Leaf"
    THEN QuadTreeLeafIterMut(SubSeq(stack, 1, Len(stack) - 1), Append(out, stack[Len(stack)]))
    ELSE QuadTreeLeafIterMut(SubSeq(stack, 1, Len(stack) - 1) \o stack[Len(stack)].children,
                             out)

\* CubeTreeIter::new (index counts from 0)
CubeTreeIter_new(cube_tree) ==
    [index |-> 0, faces |-> cube_tree.faces, chunk_iter |-> <<cube_tree.faces[1]>>]

\* CubeTreeIter::next, given what chunk_iter.next() answered
RECURSIVE CubeTreeIter_next(_)
RECURSIVE CubeTreeIter_next_after(_, _)
CubeTreeIter_next(self) == CubeTreeIter_next_after(self, QuadTreeLeafIter_next(self.chunk_iter))

CubeTreeIter_next_after(self, r) ==
    IF r.item # None
    THEN [iter |-> [self EXCEPT !.chunk_iter = r.stack], item |-> r.item]
    ELSE IF self.index < Len(self.faces) - 1
    THEN CubeTreeIter_next([index |-> self.index + 1, faces |-> self.faces,
                            chunk_iter |-> <<self.faces[self.index + 2]>>])
    ELSE [iter |-> [self EXCEPT !.chunk_iter = r.stack], item |-> None]

\* what successive calls of next return, up to `more` calls past the first None
RECURSIVE CubeTreeIter_calls(_, _, _)
RECURSIVE CubeTreeIter_calls_after(_, _, _)
CubeTreeIter_calls(self, out, more) ==
    CubeTreeIter_calls_after(CubeTreeIter_next(self), out, more)

CubeTreeIter_calls_after(r, out, more) ==
    IF r.item # None THEN CubeTreeIter_calls(r.iter, Append(out, r.item), more)
    ELSE IF more = 0 THEN Append(out, None)
    ELSE CubeTreeIter_calls(r.iter, Append(out, None), more - 1)

(***************************************************************************)
(* mesh.rs: ChunkMeshBuilder<SUBDIVISIONS> {axis, radius} and build.  A    *)
(* mesh is [panic, why, positions, normals, uvs, indices]; a build that    *)
(* panics leaves no buffers behind.                                        *)
(***************************************************************************)
ChunkMeshBuilder_new(SUBDIVISIONS, axis, radius) ==
    [SUBDIVISIONS |-> SUBDIVISIONS, axis |-> axis, radius |-> radius]

VERTEX_COUNT(self) == self.SUBDIVISIONS + 2

\* the length of positions, normals and uvs
vertex_buffer_len(self) == (self.SUBDIVISIONS + 2) * 2

\* the length of indices
index_buffer_len(self) ==
    (((self.SUBDIVISIONS + 2) * 2) - 1) * (((self.SUBDIVISIONS + 2) * 2) - 1) * 6

\* (axis_normal, local_x, local_y) as build derives them
build_frame(axis_normal, local_x) == <<axis_normal, local_x, Vector_cross(axis_normal, local_x)>>

\* bounds.min / size and bounds.max / size with size = splat(radius * 2.0)
build_corner(corner, size) == <<ScalarDiv(corner[1], size), ScalarDiv(corner[2], size)>>

\* step_x, step_y
build_step(bounds_min, bounds_max, cells) ==
    <<ScalarDiv(ScalarSub(bounds_max[1], bounds_min[1]), ScalarFromInt(cells)),
      ScalarDiv(ScalarSub(bounds_max[2], bounds_min[2]), ScalarFromInt(cells))>>

\* center: the sphere position of the middle of the bounds
build_center(frame, bounds_min, bounds_max, radius) ==
    Vector_mul(unit_cube_to_sphere(
        Vector_add(Vector_add(frame[1],
                Vector_mul(frame[2], ScalarAdd(bounds_min[1], bounds_max[1]))),
            Vector_mul(frame[3], ScalarAdd(bounds_min[2], bounds_max[2])))),
        radius)

\* what the loop of build reads: frame, bounds_min, step and center
build_grid(self, frame, bounds_min, bounds_max) ==
    [frame      |-> frame,
     bounds_min |-> bounds_min,
     step       |-> build_step(bounds_min, bounds_max, VERTEX_COUNT(self) - 1),
     center     |-> IF f64 THEN build_center(frame, bounds_min, bounds_max, self.radius)
                    ELSE Vector_ZERO]

\* (p_x, p_y) of grid point (x, y)
grid_sample(bounds_min, step, x, y) ==
    <<ScalarAdd(bounds_min[1], ScalarMul(ScalarFromInt(x), step[1])),
      ScalarAdd(bounds_min[2], ScalarMul(ScalarFromInt(y), step[2]))>>

pos_on_cube(frame, p) ==
    Vector_add(Vector_add(frame[1], Vector_mul(frame[2], ScalarMul(p[1], ScalarTwo))),
               Vector_mul(frame[3], ScalarMul(p[2], ScalarTwo)))

\* glam's is_normalized: |length_squared - 1| <= 2e-4
is_normalized(v) ==
    ScalarLe([ScalarSub(Vector_dot(v, v), ScalarOne) EXCEPT !.sgn = 1],
             ScalarDiv(ScalarFromInt(2), ScalarFromInt(10000)))

\* spherical_uv, whose debug_assert! wants a normalized argument; the
\* angles themselves are kept as the argument they are taken of
spherical_uv(normal) ==
    IF debug_assertions /\ ~is_normalized(normal) THEN [panic |-> TRUE, val |-> <<>>]
    ELSE [panic |-> FALSE, val |-> <<"spherical_uv", normal>>]

\* the six indices of the cell whose first corner is vertex index
cell_indices(index, V, neg_x, neg_y) ==
    CASE ~neg_x /\ ~neg_y -> <<index, index + V + 1, index + V, index, index + 1, index + V + 1>>
      [] neg_x /\ ~neg_y  -> <<index, index + 1, index + V, index + 1, index + V + 1, index + V>>
      [] ~neg_x /\ neg_y  -> <<index, index + 1, index + V, index + V, index + 1, index + V + 1>>
      [] neg_x /\ neg_y   -> <<index, index + V + 1, index + V, index + 1, index + V + 1, index>>

NoMesh(why) ==
    [panic |-> TRUE, why |-> why, positions |-> <<>>, normals |-> <<>>, uvs |-> <<>>,
     indices |-> <<>>]

\* indices[i] .. indices[i + 5] = cell; the first store beyond the buffer panics
build_cell(st, i, cell) ==
    IF i + 6 > Len(st.indices) THEN NoMesh("indices: index out of bounds")
    ELSE [st EXCEPT !.indices = [j \in 1..Len(st.indices) |->
                                    IF j > i /\ j <= i + 6 THEN cell[j - i] ELSE st.indices[j]]]

\* positions[index], normals[index], uvs[index] and the cell of (x, y)
build_store(self, x, y, p, normal, position, uv, st) ==
    IF x + y * VERTEX_COUNT(self) >= Len(st.positions)
    THEN NoMesh("positions: index out of bounds")
    ELSE IF uv.panic THEN NoMesh("spherical_uv: normal is not normalized")
    ELSE IF x < VERTEX_COUNT(self) - 1 /\ y < VERTEX_COUNT(self) - 1
    THEN build_cell([st EXCEPT !.positions[x + y * VERTEX_COUNT(self) + 1] = position,
                               !.normals[x + y * VERTEX_COUNT(self) + 1] = normal,
                               !.uvs[x + y * VERTEX_COUNT(self) + 1] = uv.val],
                    (x + y * VERTEX_COUNT(self)) * VERTEX_COUNT(self),
                    cell_indices(x + y * VERTEX_COUNT(self), VERTEX_COUNT(self),
                                 ScalarLt(p[1], ScalarZero), ScalarLt(p[2], ScalarZero)))
    ELSE [st EXCEPT !.positions[x + y * VERTEX_COUNT(self) + 1] = position,
                    !.normals[x + y * VERTEX_COUNT(self) + 1] = normal,
                    !.uvs[x + y * VERTEX_COUNT(self) + 1] = uv.val]

\* pos = normal * radius and the three attributes of the vertex
build_attributes(self, grid, x, y, p, normal, pos, st) ==
    build_store(self, x, y, p, normal,
                IF f64 THEN Vector_sub(pos, grid.center) ELSE Vector_mul(pos, self.radius),
                spherical_uv(pos), st)

build_vertex(self, grid, x, y, p, normal, st) ==
    build_attributes(self, grid, x, y, p, normal, Vector_mul(normal, self.radius), st)

build_point(self, grid, x, y, p, st) ==
    build_vertex(self, grid, x, y, p, unit_cube_to_sphere(pos_on_cube(grid.frame, p)), st)

\* for y in 0..VERTEX_COUNT { for x in 0..VERTEX_COUNT { .. } }, k = x + y * VERTEX_COUNT
RECURSIVE build_loop(_, _, _, _)
build_loop(self, grid, k, st) ==
    IF st.panic \/ k = VERTEX_COUNT(self) * VERTEX_COUNT(self) THEN st
    ELSE build_loop(self, grid, k + 1,
            build_point(self, grid, k % VERTEX_COUNT(self), k \div VERTEX_COUNT(self),
                        grid_sample(grid.bounds_min, grid.step,
                                    k % VERTEX_COUNT(self), k \div VERTEX_COUNT(self)),
                        st))

build_buffers(self) ==
    [panic     |-> FALSE,
     why       |-> "",
     positions |-> [i \in 1..vertex_buffer_len(self) |-> Vector_ZERO],
     normals   |-> [i \in 1..vertex_buffer_len(self) |-> Vector_ZERO],
     uvs       |-> [i \in 1..vertex_buffer_len(self) |-> Vector2_ZERO],
     indices   |-> [i \in 1..index_buffer_len(self) |-> 0]]

build_with(self, bounds, size) ==
    build_loop(self,
               build_grid(self, build_frame(Vector_from(self.axis),
                                            Vector_yzx(Vector_from(self.axis))),
                          build_corner(bounds.min, size), build_corner(bounds.max, size)),
               0, build_buffers(self))

build(self, bounds) == build_with(self, bounds, ScalarMul(self.radius, ScalarTwo))

(***************************************************************************)
(* terrain/mod.rs: the systems of TerrainPlugin over one body.  The body's *)
(* ChunkCache is a set of [hash, entity] with one entity per hash; the     *)
(* chunk entities are a sequence indexed by entity id, each                *)
(*   [alive, hash, job, mesh, collider, marked, batch]                     *)
(* where job is the state of the Task of its GenerateChunk component       *)
(* ("queued", "finished", "polled", then "applied" or "discarded"; or      *)
(* "cancelled" / "dropped" when the component is dropped with the entity)  *)
(* and marked says that the entity carries DespawnChunk.                   *)
(***************************************************************************)
Vector_MAX == <<[sgn |-> 1, m |-> SigEnd - 1, e |-> EMax],
                [sgn |-> 1, m |-> SigEnd - 1, e |-> EMax],
                [sgn |-> 1, m |-> SigEnd - 1, e |-> EMax]>>

\* glam's normalize: self * self.length().recip()
Vector_normalize(v) == Vector_mul(v, ScalarDiv(ScalarOne, Vector_length(v)))

\* cos((90.0 + 20.0).to_radians()), as f32
CHUNK_CULLING_THRESHOLD == [sgn |-> 0 - 1, m |-> 11476291, e |-> 0 - 25]

\* the filter of generate_meshes, given vector_to_target
chunk_faces_target(center, vector_to_target) ==
    \/ ScalarLt(Vector_dot(vector_to_target, vector_to_target),
                ScalarDiv(ScalarOne, ScalarFromInt(1000000)))
    \/ ScalarGt(Vector_dot(Vector_normalize(center), Vector_normalize(vector_to_target)),
                CHUNK_CULLING_THRESHOLD)

\* filtered_chunks: the leaves of the tree that pass the filter, in iter() order
filtered_chunks(cube_tree, target_position) ==
    LET Passes(leaf) ==
            chunk_faces_target(leaf.data.center, Vector_sub(target_position, leaf.data.center))
    IN  SelectSeq(CubeTree_iter(cube_tree), Passes)

\* hash_set: the hashes of the filtered leaves
hash_set(filtered) == { filtered[i].data.hash : i \in 1..Len(filtered) }

\* ChunkCache::default
ChunkCache_default == {}

contains_key(chunk_cache, hash) == \E c \in chunk_cache : c.hash = hash

\* HashMap::insert: the entry of an equal key is replaced
cache_insert(chunk_cache, hash, entity) ==
    { c \in chunk_cache : c.hash # hash } \cup { [hash |-> hash, entity |-> entity] }

\* extract_if that finds no entry to remove
extract_if_nothing(chunk_cache, hashes) == {}

\* extract_if that removes every entry
extract_if_all(chunk_cache, hashes) == chunk_cache

\* extract_if: the entries whose key is not in hash_set
extract_if(chunk_cache, hashes) == { c \in chunk_cache : c.hash \notin hashes }

\* the entities of a set of cache entries, lowest id first
RECURSIVE EntitiesOf(_)
EntitiesOf(entries) ==
    IF entries = {} THEN <<>>
    ELSE LET least == CHOOSE c \in entries : \A d \in entries : c.entity <= d.entity
         IN  <<[cmd |-> "mark", entity |-> least.entity, hash |-> least.hash]>>
                 \o EntitiesOf(entries \ {least})

\* the second loop without its contains_key test: every leaf gets a fresh
\* entity, which takes the cache entry of its hash
RECURSIVE spawn_missing_all(_, _, _)
spawn_missing_all(filtered, i, st) ==
    IF i > Len(filtered) THEN st
    ELSE spawn_missing_all(filtered, i + 1,
            [cache   |-> cache_insert(st.cache, filtered[i].data.hash, st.next),
             spawned |-> Append(st.spawned, [cmd |-> "spawn", entity |-> st.next,
                                             hash |-> filtered[i].data.hash,
                                             leaf |-> i]),
             next    |-> st.next + 1])

\* the second loop of generate_meshes from leaf i on: a leaf whose hash is
\* not cached gets a fresh entity, a cache entry and a job; `leaf` is the
\* index of the leaf among the filtered ones
RECURSIVE spawn_missing(_, _, _)
spawn_missing(filtered, i, st) ==
    IF i > Len(filtered) THEN st
    ELSE spawn_missing(filtered, i + 1,
            IF contains_key(st.cache, filtered[i].data.hash) THEN st
            ELSE [cache   |-> cache_insert(st.cache, filtered[i].data.hash, st.next),
                  spawned |-> Append(st.spawned, [cmd |-> "spawn", entity |-> st.next,
                                                  hash |-> filtered[i].data.hash,
                                                  leaf |-> i]),
                  next    |-> st.next + 1])

\* the commands of one pass in the order they are issued, spawns first
commands_spawn_first(marks, spawned) == spawned \o marks

\* the commands of one pass in the order they are issued
commands_in_order(marks, spawned) == marks \o spawned

\* a placeholder: Chunk with GenerateChunk(task), as spawned in pass `batch`
Chunk_spawn(hash, batch) ==
    [alive |-> TRUE, hash |-> hash, job |-> "queued", mesh |-> FALSE, collider |-> FALSE,
     marked |-> FALSE, batch |-> batch]

\* the commands of a pass applied, the insertions of DespawnChunk left out
chunks_after_unmarked(chunks, marks, spawned, batch) ==
    chunks \o [i \in 1..Len(spawned) |-> Chunk_spawn(spawned[i].hash, batch)]

\* the chunk entities once the commands of a pass are applied
chunks_after(chunks, marks, spawned, batch) ==
    [e \in 1..Len(chunks) |->
        IF \E i \in 1..Len(marks) : marks[i].entity = e
        THEN [chunks[e] EXCEPT !.marked = TRUE] ELSE chunks[e]]
        \o [i \in 1..Len(spawned) |-> Chunk_spawn(spawned[i].hash, batch)]

\* generate_meshes once the filter has run and the cache was purged
generate_from(filtered, marks, st, chunks, pass, target_position) ==
    [cache  |-> st.cache,
     chunks |-> chunks_after(chunks, marks, st.spawned, pass.n + 1),
     pass   |-> [n |-> pass.n + 1, target |-> target_position,
                 survivors |-> hash_set(filtered),
                 issued |-> commands_in_order(marks, st.spawned)]]

generate_filtered(filtered, evicted, chunk_cache, chunks, pass, target_position) ==
    generate_from(filtered, EntitiesOf(evicted),
                  spawn_missing(filtered, 1, [cache |-> chunk_cache \ evicted, spawned |-> <<>>,
                                              next |-> Len(chunks) + 1]),
                  chunks, pass, target_position)

generate_visible(filtered, chunk_cache, chunks, pass, target_position) ==
    generate_filtered(filtered, extract_if(chunk_cache, hash_set(filtered)), chunk_cache,
                      chunks, pass, target_position)

\* the observer generate_meshes; a body without CubeTree and Radius is not
\* matched by planet_query
generate_meshes(cube_tree, chunk_cache, chunks, pass, target_position) ==
    IF cube_tree = NoTree
    THEN [cache |-> chunk_cache, chunks |-> chunks,
          pass |-> [n |-> pass.n + 1, target |-> target_position, survivors |-> {},
                    issued |-> <<>>]]
    ELSE generate_visible(filtered_chunks(cube_tree, target_position), chunk_cache, chunks,
                          pass, target_position)

\* generate_meshes for the bodies from index b on: planet_query.iter_mut()
\* yields every body that has a CubeTree; the placeholders are parented
\* under the entity of the trigger.  st is [caches, chunks, pass]; a chunk
\* spawned here also records its parent and the body whose tree it is of.
RECURSIVE generate_meshes_all(_, _, _, _, _)
RECURSIVE generate_meshes_next(_, _, _, _, _, _)
generate_meshes_all(entity, target_position, trees, b, st) ==
    IF b > Len(trees) THEN st
    ELSE generate_meshes_next(entity, target_position, trees, b, st,
             generate_meshes(trees[b], st.caches[b], st.chunks,
                             [n |-> st.pass.n, target |-> target_position,
                              survivors |-> {}, issued |-> <<>>],
                             target_position))

generate_meshes_next(entity, target_position, trees, b, st, out) ==
    generate_meshes_all(entity, target_position, trees, b + 1,
        [caches |-> [st.caches EXCEPT ![b] = out.cache],
         chunks |-> [e \in 1..Len(out.chunks) |->
                        IF e <= Len(st.chunks) THEN out.chunks[e]
                        ELSE out.chunks[e] @@ [parent |-> entity, body |-> b]],
         pass   |-> st.pass])

\* the early return of track_target_position (the planet is at the origin)
within_threshold(target_position, prev_position, radius) ==
    ScalarLt(Vector_distance(target_position, prev_position),
             ScalarMul(ScalarSub(Vector_distance(target_position, Vector_ZERO), radius),
                       ScalarDiv(ScalarOne, ScalarFromInt(100))))

\* command_queue of a finished job, applied: the mesh alone
apply_mesh_only(chunk) ==
    IF chunk.alive THEN [chunk EXCEPT !.mesh = TRUE, !.job = "applied"]
    ELSE [chunk EXCEPT !.job = "discarded"]

\* command_queue of a finished job, applied, and the removal of GenerateChunk
apply_result(chunk) ==
    IF chunk.alive
    THEN [chunk EXCEPT !.mesh = TRUE, !.collider = collider_of(chunk.hash), !.job = "applied"]
    ELSE [chunk EXCEPT !.job = "discarded"]

\* a despawn that leaves the entity in the world
despawn_ignored(chunk) == chunk

\* despawn: the entity goes, and with it its GenerateChunk and the Task in
\* it; a Task dropped before it ran never runs
despawn(chunk) ==
    [chunk EXCEPT !.alive = FALSE,
                  !.job = CASE chunk.job = "queued"   -> "cancelled"
                            [] chunk.job = "finished" -> "dropped"
                            [] OTHER                  -> chunk.job]

(***************************************************************************)
(* The values the variables of one specification hold while another        *)
(* specification runs.                                                     *)
(***************************************************************************)
NoOp == [name |-> "none", arg |-> 0]

HashIdle ==
    /\ hPhase = "idle"
    /\ hIn = [axis |-> "X", depth |-> 0, collider |-> FALSE, path |-> [i \in 1..7 |-> "ROOT"]]
    /\ hRecv = Zero32
    /\ hOp = NoOp
    /\ hCur = Ok(Zero32)

ZeroRect == from_corners(Vector2_ZERO, Vector2_ZERO)

QuadIdle ==
    /\ qTree = Leaf(ZeroRect, 0)
    /\ qIn = [bounds |-> ZeroRect, data |-> 0]
    /\ qOp = [name |-> "none", at |-> <<>>, arg |-> 0, recv |-> Leaf(ZeroRect, 0)]
    /\ qPanic = FALSE

NoCubeOp ==
    [name |-> "none", point |-> Vector_ZERO, prior |-> "none", recv |-> NoTree,
     recv_point |-> Vector_ZERO]

CubeIdle ==
    /\ cRadius = ScalarZero
    /\ cTree = NoTree
    /\ cOp = NoCubeOp

\* a ChunkMeshBuilder that has not been constructed
NoBuilder == ChunkMeshBuilder_new(0, "X", ScalarZero)

MeshIdle ==
    /\ mBuilder = NoBuilder
    /\ mBounds = ZeroRect
    /\ mMesh = NoMesh("not built")

\* no GenerateMeshes has been observed yet
NoPass == [n |-> 0, target |-> Vector_ZERO, survivors |-> {}, issued |-> <<>>]

WorldIdle ==
    /\ wTree = NoTree
    /\ wCache = ChunkCache_default
    /\ wChunks = <<>>
    /\ wPass = NoPass
    /\ wPrev = Vector_ZERO
    /\ wTarget = Vector_ZERO
    /\ wPolled = <<>>

(***************************************************************************)
(* SpecQuad: QuadTreeNode::new on sampled bounds and data, then any        *)
(* sequence of subdivide, subdivide_with, subdivide_recursive,             *)
(* subdivide_recursive_with, insert and insert_with calls, each on any     *)
(* node of the tree.  A panic ends the run with the tree as it was.        *)
(***************************************************************************)
\* calls are made on trees with at most MaxLeaves leaves
MaxLeaves == 4

\* the max_depth arguments of subdivide_recursive and subdivide_recursive_with
DepthSamples == {0, 1, 2}

\* (0,0)-(10,10) as in the tests; a cube face of half size 24; a rectangle
\* that is not a square; a rectangle whose center is not representable
\* (2^24 + 1, which rounds to 2^24)
RootBounds ==
    { from_corners(Vector2_ZERO, Vector2_splat(ScalarFromInt(10))),
      from_center_half_size(Vector2_ZERO, Vector2_splat(ScalarFromInt(24))),
      from_corners(<<ScalarFromInt(1), ScalarFromInt(2)>>, <<ScalarFromInt(7), ScalarFromInt(5)>>),
      from_corners(Vector2_splat(ScalarOf(1, 24)), Vector2_splat(ScalarOf(Pow2(23) + 1, 1))) }

RootData == {42}

CreateFns == {[kind |-> "scale"], [kind |-> "level"]}

CreateAtFns == {[kind |-> "width"], [kind |-> "depth"]}

Predicates ==
    { [kind |-> "size", s |-> ScalarFromInt(6), pt |-> Vector2_ZERO],
      [kind |-> "point", s |-> ScalarFromInt(3), pt |-> <<ScalarFromInt(1), ScalarFromInt(3)>>] }

QuadInit ==
    /\ debug_assertions = TRUE
    /\ f64 \in BOOLEAN
    /\ HashIdle
    /\ CubeIdle
    /\ MeshIdle
    /\ WorldIdle
    /\ qIn \in [bounds : RootBounds, data : RootData]
    /\ qTree = QuadTreeNode_new(qIn.bounds, qIn.data)
    /\ qOp = [name |-> "new", at |-> <<>>, arg |-> 0, recv |-> Leaf(ZeroRect, 0)]
    /\ qPanic = FALSE

QuadStep(name, at, arg, result) ==
    /\ qOp' = [name |-> name, at |-> at, arg |-> arg, recv |-> NodeAt(qTree, at)]
    /\ qPanic' = result.panic
    /\ qTree' = ReplaceAt(qTree, at, result.node)
    /\ UNCHANGED <<buildVars, hashVars, qIn, cubeVars, meshVars, worldVars>>

QuadReady == ~qPanic /\ Len(gather_leaves(qTree)) <= MaxLeaves

QuadSubdivide ==
    /\ QuadReady
    /\ \E at \in Positions(qTree) :
          QuadStep("subdivide", at, 0, subdivide(NodeAt(qTree, at)))

QuadSubdivided ==
    /\ QuadReady
    /\ \E at \in Positions(qTree) :
          QuadStep("subdivided", at, 0, subdivided(NodeAt(qTree, at)))

QuadSubdivideWith ==
    /\ QuadReady
    /\ \E at \in Positions(qTree), f \in CreateFns :
          QuadStep("subdivide_with", at, f, subdivide_with(NodeAt(qTree, at), f))

QuadSubdividedWith ==
    /\ QuadReady
    /\ \E at \in Positions(qTree), f \in CreateFns :
          QuadStep("subdivided_with", at, f, subdivided_with(NodeAt(qTree, at), f))

QuadSubdivideRecursive ==
    /\ QuadReady
    /\ \E at \in Positions(qTree), d \in DepthSamples :
          QuadStep("subdivide_recursive", at, d, subdivide_recursive(NodeAt(qTree, at), d))

QuadSubdivideRecursiveWith ==
    /\ QuadReady
    /\ \E at \in Positions(qTree), d \in DepthSamples, f \in CreateAtFns :
          QuadStep("subdivide_recursive_with", at, [d |-> d, f |-> f],
                   subdivide_recursive_with(NodeAt(qTree, at), d, f))

QuadInsert ==
    /\ QuadReady
    /\ \E at \in Positions(qTree), p \in Predicates :
          QuadStep("insert", at, p, NodeOk(insert(NodeAt(qTree, at), p)))

QuadInsertWith ==
    /\ QuadReady
    /\ \E at \in Positions(qTree), p \in Predicates, f \in CreateFns :
          QuadStep("insert_with", at, [p |-> p, f |-> f],
                   NodeOk(insert_with(NodeAt(qTree, at), p, f)))

QuadNext ==
    \/ QuadSubdivide
    \/ QuadSubdivided
    \/ QuadSubdivideWith
    \/ QuadSubdividedWith
    \/ QuadSubdivideRecursive
    \/ QuadSubdivideRecursiveWith
    \/ QuadInsert
    \/ QuadInsertWith

SpecQuad == QuadInit /\ [][QuadNext]_vars

(***************************************************************************)
(* SpecCube: CubeTree::new for a body of a sampled radius, then any        *)
(* sequence of CubeTree::insert calls with sampled viewer positions.       *)
(* SpecCubeDeep adds a body so large that refinement next to the viewer    *)
(* passes depth 63 before the leaves shrink to MIN_SIZE.                   *)
(***************************************************************************)
\* a tree refined past this many leaves is not refined again
MaxCubeLeaves == 1000

Radii == {ScalarFromInt(24), ScalarFromInt(48), ScalarFromInt(100)}

\* 2^68
DeepRadius == [sgn |-> 1, m |-> Hidden, e |-> 68 - 23]

\* SpecCubeWide: bodies whose faces are smaller than MIN_SIZE and of MIN_SIZE,
\* bodies refined a few levels, and one refined deeper than the seven
\* quadrants a hash holds
LargeRadius == ScalarFromInt(3072)

WideRadii ==
    {ScalarFromInt(8), ScalarFromInt(12), ScalarFromInt(16), ScalarFromInt(60), LargeRadius}

\* Viewer positions relative to the centre of a body of the given radius: on
\* the surface at the centre of face Z; above face X at 1.2 radii; and the
\* position of examples/cube_tree.rs, (X + Y + Z) * radius * 0.56.  The body
\* of DeepRadius is visited on its surface only; a body of WideRadii is seen
\* from the first two and from afar, five radii below face NegY, the one of
\* LargeRadius from its surface and from afar.
ViewerPoints(radius) ==
    IF radius = DeepRadius THEN { <<ScalarZero, ScalarZero, radius>> }
    ELSE IF radius \in WideRadii
    THEN { <<ScalarZero, ScalarZero, radius>>,
           <<ScalarZero, ScalarNeg(ScalarMul(radius, ScalarFromInt(5))), ScalarZero>> }
         \cup IF radius = LargeRadius THEN {}
              ELSE { <<ScalarMul(radius, ScalarDiv(ScalarFromInt(6), ScalarFromInt(5))),
                       ScalarZero, ScalarZero>> }
    ELSE { <<ScalarZero, ScalarZero, radius>>,
           <<ScalarMul(radius, ScalarDiv(ScalarFromInt(6), ScalarFromInt(5))),
             ScalarZero, ScalarZero>>,
           Vector_mul(Vector_mul(<<ScalarOne, ScalarOne, ScalarOne>>, radius),
                      ScalarDiv(ScalarFromInt(14), ScalarFromInt(25))) }

CubeInitWith(radii) ==
    /\ debug_assertions \in BOOLEAN
    /\ f64 \in BOOLEAN
    /\ HashIdle
    /\ QuadIdle
    /\ cRadius \in radii
    /\ cTree = NoTree
    /\ cOp = NoCubeOp
    /\ MeshIdle
    /\ WorldIdle

CubeInit == CubeInitWith(Radii)

CubeDeepInit == CubeInitWith(Radii \cup {DeepRadius})

CubeNew ==
    /\ cOp.name = "none"
    /\ cTree' = CubeTree_new(cRadius)
    /\ cOp' = [name |-> "new", point |-> Vector_ZERO, prior |-> "none", recv |-> NoTree,
                recv_point |-> Vector_ZERO]
    /\ UNCHANGED <<buildVars, hashVars, quadVars, cRadius, meshVars, worldVars>>

CubeInsert ==
    /\ cOp.name # "none"
    /\ Len(CubeTree_leaves(cTree)) <= MaxCubeLeaves
    /\ \E point \in ViewerPoints(cRadius) :
          /\ cTree' = CubeTree_insert(cTree, point)
          /\ cOp' = [name  |-> "insert",
                     point |-> point,
                     prior |-> IF cOp.name = "new" THEN "new"
                               ELSE IF cOp.point = point THEN "same" ELSE "other",
                     recv  |-> cTree,
                     recv_point |-> cOp.point]
    /\ UNCHANGED <<buildVars, hashVars, quadVars, cRadius, meshVars, worldVars>>

CubeNext ==
    \/ CubeNew
    \/ CubeInsert

SpecCube == CubeInit /\ [][CubeNext]_vars

SpecCubeDeep == CubeDeepInit /\ [][CubeNext]_vars

\* the debug build (no operation on a CubeTree of these bodies comes near
\* the depth that debug_assert! guards), with and without the f64 feature
CubeWideInit ==
    /\ debug_assertions = TRUE
    /\ f64 \in BOOLEAN
    /\ HashIdle
    /\ QuadIdle
    /\ cRadius \in WideRadii
    /\ cTree = NoTree
    /\ cOp = NoCubeOp
    /\ MeshIdle
    /\ WorldIdle

SpecCubeWide == CubeWideInit /\ [][CubeNext]_vars

(***************************************************************************)
(* SpecMesh: ChunkMeshBuilder::new on sampled subdivision counts, faces    *)
(* and radii, then one build call on the bounds of a node of a face        *)
(* refined toward a corner (build reads only the builder and the bounds).  *)
(***************************************************************************)
\* the largest SUBDIVISIONS a builder is instantiated with
MaxSubdivisions == 2

MeshAxes == {"X", "NegY"}

MeshRadii == {ScalarOne, ScalarFromInt(100)}

\* the bounds of the four children of a node
Quarters(bounds) == { subdivide_bounds(bounds)[i][2] : i \in 1..4 }

\* the SW child of a node
QuarterSW(bounds) == subdivide_bounds(bounds)[1][2]

\* the bounds of the leaves and internal nodes of a face that is refined
\* three levels deep toward its SW corner
MeshBounds(radius) ==
    Quarters(CubeTree_bounds(radius))
        \cup Quarters(QuarterSW(CubeTree_bounds(radius)))
        \cup Quarters(QuarterSW(QuarterSW(CubeTree_bounds(radius))))

MeshInit ==
    /\ debug_assertions \in BOOLEAN
    /\ f64 \in BOOLEAN
    /\ HashIdle
    /\ QuadIdle
    /\ CubeIdle
    /\ MeshIdle
    /\ WorldIdle

MeshNew ==
    /\ mBuilder = NoBuilder
    /\ \E S \in 0..MaxSubdivisions, axis \in MeshAxes, radius \in MeshRadii :
          mBuilder' = ChunkMeshBuilder_new(S, axis, radius)
    /\ UNCHANGED <<buildVars, hashVars, quadVars, cubeVars, mBounds, mMesh, worldVars>>

MeshBuild ==
    /\ mBuilder # NoBuilder
    /\ mMesh.why = "not built"
    /\ \E bounds \in MeshBounds(mBuilder.radius) :
          /\ mBounds' = bounds
          /\ mMesh' = build(mBuilder, bounds)
    /\ UNCHANGED <<buildVars, hashVars, quadVars, cubeVars, mBuilder, worldVars>>

MeshNext ==
    \/ MeshNew
    \/ MeshBuild

SpecMesh == MeshInit /\ [][MeshNext]_vars

(***************************************************************************)
(* SpecWorld: one body and one viewer.  The body is added (on_add_body      *)
(* runs, and with it the first GenerateMeshes), then the viewer moves and  *)
(* the Update systems run in any order.  handle_chunk_generation_tasks is  *)
(* two steps, the system and the application of its commands, so that the  *)
(* commands of the other systems can be applied in between; the worker     *)
(* pool runs the jobs of one pass together.  SpecWorldFair adds that the   *)
(* Update schedule keeps running handle_despawn_chunks.                    *)
(***************************************************************************)
\* GenerateMeshes is observed at most this many times
MaxPasses == 3

\* Body.radius
WorldRadius == ScalarFromInt(24)

\* Viewer positions: on the surface at the centre of face Z, and above face
\* X at 1.2 radii
WorldPoints ==
    { <<ScalarZero, ScalarZero, WorldRadius>>,
      <<ScalarMul(WorldRadius, ScalarDiv(ScalarFromInt(6), ScalarFromInt(5))),
        ScalarZero, ScalarZero>> }

\* The build without the f64 feature, with or without debug assertions.
WorldInit ==
    /\ debug_assertions \in BOOLEAN
    /\ f64 = FALSE
    /\ HashIdle
    /\ QuadIdle
    /\ CubeIdle
    /\ MeshIdle
    /\ wTree = NoTree
    /\ wCache = ChunkCache_default
    /\ wChunks = <<>>
    /\ wPass = NoPass
    /\ wPrev = Vector_ZERO
    /\ wTarget \in WorldPoints
    /\ wPolled = <<>>

\* a GenerateMeshes trigger is applied: the observer runs on the tree as it
\* is by then, and its commands are applied
Observed(out) ==
    /\ wCache' = out.cache
    /\ wChunks' = out.chunks
    /\ wPass' = out.pass

Trigger(cube_tree, target_position) ==
    Observed(generate_meshes(cube_tree, wCache, wChunks, wPass, target_position))

OnAddBody ==
    /\ wPass.n = 0
    /\ wTree' = IF debug_assertions THEN CubeTree_new(WorldRadius) ELSE wTree
    /\ Trigger(wTree', Vector_MAX)
    /\ UNCHANGED <<buildVars, hashVars, quadVars, cubeVars, meshVars, wPrev, wTarget, wPolled>>

ViewerMove ==
    /\ wPass.n > 0
    /\ wTarget' \in WorldPoints \ {wTarget}
    /\ UNCHANGED <<buildVars, hashVars, quadVars, cubeVars, meshVars, wTree, wCache, wChunks,
                   wPass, wPrev, wPolled>>

TrackTargetPosition ==
    /\ wPass.n > 0
    /\ wPass.n < MaxPasses
    /\ IF wTree = NoTree \/ within_threshold(wTarget, wPrev, WorldRadius)
       THEN UNCHANGED <<wTree, wCache, wChunks, wPass, wPrev>>
       ELSE /\ wPrev' = wTarget
            /\ wTree' = CubeTree_insert(wTree, Vector_sub(wTarget, Vector_ZERO))
            /\ Trigger(wTree', Vector_sub(wTarget, Vector_ZERO))
    /\ UNCHANGED <<buildVars, hashVars, quadVars, cubeVars, meshVars, wTarget, wPolled>>

\* AsyncComputeTaskPool: the queued jobs of one pass run to their end
PoolRun ==
    /\ \E b \in { wChunks[e].batch : e \in { x \in 1..Len(wChunks) : wChunks[x].job = "queued" } } :
          wChunks' = [e \in 1..Len(wChunks) |->
                        IF wChunks[e].job = "queued" /\ wChunks[e].batch = b
                        THEN [wChunks[e] EXCEPT !.job = "finished"] ELSE wChunks[e]]
    /\ UNCHANGED <<buildVars, hashVars, quadVars, cubeVars, meshVars, wTree, wCache, wPass,
                   wPrev, wTarget, wPolled>>

\* handle_chunk_generation_tasks: the finished jobs are taken and their
\* command queues appended to the system's commands
HandleChunkGenerationTasks ==
    /\ wPolled = <<>>
    /\ { e \in 1..Len(wChunks) : wChunks[e].alive /\ wChunks[e].job = "finished" } # {}
    /\ wPolled' = SelectSeq([e \in 1..Len(wChunks) |-> e],
                            LAMBDA e : wChunks[e].alive /\ wChunks[e].job = "finished")
    /\ wChunks' = [e \in 1..Len(wChunks) |->
                     IF wChunks[e].alive /\ wChunks[e].job = "finished"
                     THEN [wChunks[e] EXCEPT !.job = "polled"] ELSE wChunks[e]]
    /\ UNCHANGED <<buildVars, hashVars, quadVars, cubeVars, meshVars, wTree, wCache, wPass,
                   wPrev, wTarget>>

\* the commands of handle_chunk_generation_tasks are applied
ApplyTaskCommands ==
    /\ wPolled # <<>>
    /\ wPolled' = <<>>
    /\ wChunks' = [e \in 1..Len(wChunks) |->
                     IF \E i \in 1..Len(wPolled) : wPolled[i] = e
                     THEN apply_result(wChunks[e]) ELSE wChunks[e]]
    /\ UNCHANGED <<buildVars, hashVars, quadVars, cubeVars, meshVars, wTree, wCache, wPass,
                   wPrev, wTarget>>

\* handle_despawn_chunks and its commands
HandleDespawnChunks ==
    /\ { e \in 1..Len(wChunks) : wChunks[e].alive /\ wChunks[e].marked } # {}
    /\ wChunks' = [e \in 1..Len(wChunks) |->
                     IF wChunks[e].alive /\ wChunks[e].marked
                     THEN despawn(wChunks[e]) ELSE wChunks[e]]
    /\ UNCHANGED <<buildVars, hashVars, quadVars, cubeVars, meshVars, wTree, wCache, wPass,
                   wPrev, wTarget, wPolled>>

WorldNext ==
    \/ OnAddBody
    \/ ViewerMove
    \/ TrackTargetPosition
    \/ PoolRun
    \/ HandleChunkGenerationTasks
    \/ ApplyTaskCommands
    \/ HandleDespawnChunks

SpecWorld == WorldInit /\ [][WorldNext]_vars

SpecWorldFair == SpecWorld /\ WF_vars(HandleDespawnChunks)

(***************************************************************************)
(* SpecTwin: generate_meshes on a body whose tree has two leaves of one    *)
(* face with the same hash, as CubeTree::insert leaves them once the depth *)
(* is clamped (C5).  The tree is that of CubeTree::new with the hash of    *)
(* one leaf of a face given to a later leaf of that face too.              *)
(***************************************************************************)
\* GenerateMeshes is observed at most this many times
MaxTwinPasses == 3

\* the faces (indexes into Axis::ALL) that get the twin leaves
TwinFaces == {1, 3}

TwinNode(node, earlier, later) ==
    Internal(node.bounds,
             [q \in 1..4 |->
                 IF q = later
                 THEN Leaf(node.children[q].bounds,
                           [center |-> node.children[q].data.center,
                            hash   |-> node.children[earlier].data.hash])
                 ELSE node.children[q]])

TwinTree(tree, face, earlier, later) ==
    [radius |-> tree.radius,
     faces  |-> [i \in 1..6 |-> IF i = face THEN TwinNode(tree.faces[i], earlier, later)
                                ELSE tree.faces[i]]]

\* the debug build (the body has its CubeTree), before the body is added
TwinInit ==
    /\ debug_assertions = TRUE
    /\ f64 = FALSE
    /\ HashIdle
    /\ QuadIdle
    /\ CubeIdle
    /\ MeshIdle
    /\ wTree = NoTree
    /\ wCache = ChunkCache_default
    /\ wChunks = <<>>
    /\ wPass = NoPass
    /\ wPrev = Vector_ZERO
    /\ wTarget \in WorldPoints
    /\ wPolled = <<>>

\* on_add_body, the body's tree being one with twin leaves; earlier = later
\* leaves the tree as CubeTree::new made it
TwinOnAdd ==
    /\ wPass.n = 0
    /\ \E tree \in {CubeTree_new(WorldRadius)} :
          wTree' \in { TwinTree(tree, face, p[1], p[2]) :
                         face \in TwinFaces, p \in { q \in (1..4) \X (1..4) : q[1] <= q[2] } }
    /\ Trigger(wTree', Vector_MAX)
    /\ UNCHANGED <<buildVars, hashVars, quadVars, cubeVars, meshVars, wPrev, wTarget, wPolled>>

\* the observer runs for the viewer's position
TwinPass ==
    /\ wPass.n > 0
    /\ wPass.n < MaxTwinPasses
    /\ Trigger(wTree, wTarget)
    /\ UNCHANGED <<buildVars, hashVars, quadVars, cubeVars, meshVars, wTree, wPrev, wTarget,
                   wPolled>>

TwinMove ==
    /\ wTarget' \in WorldPoints \ {wTarget}
    /\ UNCHANGED <<buildVars, hashVars, quadVars, cubeVars, meshVars, wTree, wCache, wChunks,
                   wPass, wPrev, wPolled>>

TwinNext ==
    \/ TwinOnAdd
    \/ TwinPass
    \/ TwinMove

SpecTwin == TwinInit /\ [][TwinNext]_vars

(***************************************************************************)
(* SpecBodies: two bodies and one viewer that is the child of one of them. *)
(* wTree and wCache hold one value per body, in the order of the bodies'   *)
(* entities; wPass holds the count of the triggers, the entity and the     *)
(* position of the latest one and the bodies added; wTarget holds the      *)
(* viewer's parent and its position relative to the parent.                *)
(***************************************************************************)
\* GenerateMeshes is triggered at most this many times
MaxTriggers == 3

\* Body.radius of the two bodies
BodyRadii == <<ScalarFromInt(24), ScalarFromInt(48)>>

\* the viewer's positions relative to its parent: on the surface at the
\* centre of face Z, and above face X at 1.2 radii
BodyPoints(radius) ==
    { <<ScalarZero, ScalarZero, radius>>,
      <<ScalarMul(radius, ScalarDiv(ScalarFromInt(6), ScalarFromInt(5))),
        ScalarZero, ScalarZero>> }

BodiesInit ==
    /\ debug_assertions \in BOOLEAN
    /\ f64 = FALSE
    /\ HashIdle
    /\ QuadIdle
    /\ CubeIdle
    /\ MeshIdle
    /\ wTree = <<NoTree, NoTree>>
    /\ wCache = <<ChunkCache_default, ChunkCache_default>>
    /\ wChunks = <<>>
    /\ wPass = [n |-> 0, entity |-> 0, target |-> Vector_ZERO, added |-> {}]
    /\ wPrev = Vector_ZERO
    /\ \E b \in 1..2 : \E point \in BodyPoints(BodyRadii[b]) :
          wTarget = [parent |-> b, point |-> point]
    /\ wPolled = <<>>

\* GenerateMeshes(target_position) is triggered on `entity` and observed
BodiesObserved(out) ==
    /\ wCache' = out.caches
    /\ wChunks' = out.chunks
    /\ wPass' = out.pass

BodiesTrigger(entity, target_position, trees, added) ==
    BodiesObserved(
        generate_meshes_all(entity, target_position, trees, 1,
            [caches |-> wCache, chunks |-> wChunks,
             pass   |-> [n |-> wPass.n + 1, entity |-> entity, target |-> target_position,
                         added |-> added]]))

\* on_add_body of body b
BodiesOnAdd ==
    \E b \in 1..2 :
        /\ b \notin wPass.added
        /\ wPass.n < MaxTriggers
        /\ wTree' = IF debug_assertions THEN [wTree EXCEPT ![b] = CubeTree_new(BodyRadii[b])]
                    ELSE wTree
        /\ BodiesTrigger(b, Vector_MAX, wTree', wPass.added \cup {b})
        /\ UNCHANGED <<buildVars, hashVars, quadVars, cubeVars, meshVars, wPrev, wTarget,
                       wPolled>>

\* the viewer moves, or becomes the child of the other body
BodiesViewerMove ==
    /\ \E b \in 1..2 : \E point \in BodyPoints(BodyRadii[b]) :
          /\ [parent |-> b, point |-> point] # wTarget
          /\ wTarget' = [parent |-> b, point |-> point]
    /\ UNCHANGED <<buildVars, hashVars, quadVars, cubeVars, meshVars, wTree, wCache, wChunks,
                   wPass, wPrev, wPolled>>

\* track_target_position: the planet is the viewer's parent, at the origin
BodiesTrack ==
    /\ wTarget.parent \in wPass.added
    /\ wPass.n < MaxTriggers
    /\ IF wTree[wTarget.parent] = NoTree
          \/ within_threshold(wTarget.point, wPrev, BodyRadii[wTarget.parent])
       THEN UNCHANGED <<wTree, wCache, wChunks, wPass, wPrev>>
       ELSE /\ wPrev' = wTarget.point
            /\ wTree' = [wTree EXCEPT ![wTarget.parent] =
                            CubeTree_insert(wTree[wTarget.parent], wTarget.point)]
            /\ BodiesTrigger(wTarget.parent, wTarget.point, wTree', wPass.added)
    /\ UNCHANGED <<buildVars, hashVars, quadVars, cubeVars, meshVars, wTarget, wPolled>>

BodiesNext ==
    \/ BodiesOnAdd
    \/ BodiesViewerMove
    \/ BodiesTrack

SpecBodies == BodiesInit /\ [][BodiesNext]_vars

(***************************************************************************)
(* SpecHash: ChunkHash::new on sampled arguments, then hash operations.    *)
(* A second operation is applied to the result of a push_quadrant, whose   *)
(* result may carry bit 31 (the low bit of the dropped path element).      *)
(***************************************************************************)
PathFree == 0

\* depths handed to new / with_depth: u8 values on both sides of the 6-bit limit
DepthValues == {0, 42, 63, 64, 255}

\* 7-element paths: the first PathFree elements free, the rest a pattern b:
\* the four child quadrants in rotation (b < 4), all ROOT (b = 4), or all five
\* quadrants in rotation (b = 5)
PathSet ==
    { [i \in 1..7 |-> IF i <= PathFree THEN f[i]
                      ELSE IF b < 4 THEN Quadrant_ALL[((b + i) % 4) + 1]
                      ELSE IF b = 4 THEN "ROOT"
                      ELSE Quadrant_from(i % 5)] :
        f \in [1..PathFree -> Quadrant], b \in 0..5 }

HashInit ==
    /\ debug_assertions \in BOOLEAN
    /\ f64 = FALSE
    /\ QuadIdle
    /\ CubeIdle
    /\ MeshIdle
    /\ WorldIdle
    /\ hPhase = "input"
    /\ hIn \in [axis : Axis, depth : DepthValues, collider : BOOLEAN, path : PathSet]
    /\ hRecv = Zero32
    /\ hOp = NoOp
    /\ hCur = Ok(Zero32)

HashNew ==
    /\ hPhase = "input"
    /\ hPhase' = "built"
    /\ hCur' = ChunkHash_new(hIn.axis, hIn.depth, hIn.collider, hIn.path)
    /\ hOp' = [name |-> "new", arg |-> 0]
    /\ UNCHANGED <<buildVars, hIn, hRecv, quadVars, cubeVars, meshVars, worldVars>>

\* an operation may be applied to a hash that exists: after new, or after a push
HashReady ==
    /\ ~hCur.panic
    /\ \/ hPhase = "built"
       \/ hPhase = "applied" /\ hOp.name = "push_quadrant"

HashStep(name, arg, result) ==
    /\ HashReady
    /\ hPhase' = IF hPhase = "built" THEN "applied" ELSE "chained"
    /\ hRecv' = hCur.val
    /\ hOp' = [name |-> name, arg |-> arg]
    /\ hCur' = result
    /\ UNCHANGED <<buildVars, hIn, quadVars, cubeVars, meshVars, worldVars>>

HashPushQuadrant ==
    \E q \in Quadrant : HashStep("push_quadrant", q, Ok(push_quadrant(hCur.val, q)))

HashWithDepth ==
    \E d \in DepthValues : HashStep("with_depth", d, with_depth(hCur.val, d))

HashIncrementDepth ==
    HashStep("increment_depth", 0, increment_depth(hCur.val))

HashWithCollider ==
    \E c \in BOOLEAN : HashStep("with_collider", c, Ok(with_collider(hCur.val, c)))

HashNext ==
    \/ HashNew
    \/ HashPushQuadrant
    \/ HashWithDepth
    \/ HashIncrementDepth
    \/ HashWithCollider

SpecHash == HashInit /\ [][HashNext]_vars

(***************************************************************************)
(* SpecHashChain: the hashes that refinement derives for two quadrant      *)
(* sequences of one face, level by level: both start from                  *)
(* ChunkHash::new_root(axis) and take increment_depth().push_quadrant(q)   *)
(* per level.  hIn holds the face and the two sequences, hCur the two      *)
(* hashes.  The sequences differ at one level at most.                     *)
(***************************************************************************)
\* the longest quadrant sequence
MaxChain == 8

ChainAxes == {"X", "NegZ"}

\* the quadrants of the levels at which the two sequences agree
ChainQuadrants == {"SW", "NE"}

\* the closure of CubeTree::insert for the children of a refined leaf
chain_push(hash, quadrant) == push_quadrant(increment_depth(hash).val, quadrant)

HashChainInit ==
    /\ debug_assertions \in BOOLEAN
    /\ f64 = FALSE
    /\ QuadIdle
    /\ CubeIdle
    /\ MeshIdle
    /\ WorldIdle
    /\ hPhase = "chain"
    /\ \E axis \in ChainAxes :
          /\ hIn = [axis |-> axis, left |-> <<>>, right |-> <<>>]
          /\ hCur = [left |-> new_root(axis).val, right |-> new_root(axis).val]
    /\ hRecv = Zero32
    /\ hOp = NoOp

ChainStep(left, right) ==
    /\ hPhase = "chain"
    /\ Len(hIn.left) < MaxChain
    /\ hIn' = [hIn EXCEPT !.left = Append(@, left), !.right = Append(@, right)]
    /\ hCur' = [left |-> chain_push(hCur.left, left), right |-> chain_push(hCur.right, right)]
    /\ hOp' = [name |-> "push_quadrant", arg |-> left]
    /\ UNCHANGED <<buildVars, hPhase, hRecv, quadVars, cubeVars, meshVars, worldVars>>

\* both sequences go down the same quadrant
ChainPushSame == \E q \in ChainQuadrants : ChainStep(q, q)

\* the sequences part
ChainPushApart ==
    /\ hIn.left = hIn.right
    /\ \E left, right \in Range(Quadrant_ALL) : left # right /\ ChainStep(left, right)

HashChainNext ==
    \/ ChainPushSame
    \/ ChainPushApart

SpecHashChain == HashChainInit /\ [][HashChainNext]_vars

(***************************************************************************)
(* Claims about ChunkHash, checked under SpecHash.                         *)
(***************************************************************************)

\* C2: for every axis, depth <= 63, collider flag and 7-element path, the hash
\* built by ChunkHash::new decodes to exactly these values: values() returns
\* (axis, depth, path, collider).
C2_RoundTrip ==
    (hPhase = "built" /\ hIn.depth <= 63) =>
        /\ ~hCur.panic
        /\ values_of(hCur.val) = <<hIn.axis, hIn.depth, hIn.path, hIn.collider>>

\* a hash built with the largest depth, the flag set and no ROOT in its path
C2_Witness ==
    /\ hPhase = "built"
    /\ hIn.depth = 63 /\ hIn.collider /\ hIn.axis = "NegZ"
    /\ \A i \in 1..7 : hIn.path[i] # "ROOT"
    /\ \E i, j \in 1..7 : hIn.path[i] # hIn.path[j]
    /\ ~hCur.panic

\* C3: push_quadrant(q) returns a hash whose path is q followed by the first six
\* elements of the receiver's path (its last element is dropped), with the
\* receiver's axis, depth and collider flag.
C3_PushQuadrantPath ==
    (hOp.name = "push_quadrant" /\ ~hCur.panic) =>
        /\ path_of(hCur.val) =
               [i \in 1..7 |-> IF i = 1 THEN hOp.arg ELSE path_of(hRecv)[i - 1]]
        /\ axis_of(hCur.val) = axis_of(hRecv)
        /\ depth_of(hCur.val) = depth_of(hRecv)
        /\ collider_of(hCur.val) = collider_of(hRecv)

\* a second push, onto a receiver that carries bit 31 and whose seven path
\* elements are all set, so that a non-ROOT element is dropped
C3_Witness ==
    /\ hPhase = "chained" /\ hOp.name = "push_quadrant"
    /\ hRecv.top = 1
    /\ \A i \in 1..7 : path_of(hRecv)[i] # "ROOT"
    /\ hOp.arg # "ROOT" /\ hOp.arg # path_of(hRecv)[1]
    /\ collider_of(hRecv) /\ depth_of(hRecv) = 42

\* C4 as stated: push_quadrant returns a hash whose depth is the receiver's
\* depth incremented by one.
C4_PushIncrementsDepth ==
    (hOp.name = "push_quadrant" /\ ~hCur.panic) =>
        depth_of(hCur.val) = depth_of(hRecv) + 1

\* C4 as amended: push_quadrant leaves the depth as it is in the receiver; the
\* depth changes only through with_depth / increment_depth.
C4_PushKeepsDepth ==
    (hOp.name = "push_quadrant" /\ ~hCur.panic) =>
        depth_of(hCur.val) = depth_of(hRecv)

C4_Witness ==
    /\ hOp.name = "push_quadrant" /\ ~hCur.panic
    /\ depth_of(hRecv) = 42 /\ hOp.arg = "NE"
    /\ path_of(hCur.val)[1] = "NE"

\* C10: the depth never exceeds 63 and every operation that would exceed it
\* fails instead of returning a hash: new and with_depth with a depth above 63
\* abort, and increment_depth on a hash of depth 63 aborts.
\* (Stated for the build with debug assertions, where the aborts exist.)
C10_DepthOverflowAborts ==
    debug_assertions =>
        /\ ~hCur.panic => depth_of(hCur.val) <= 63
        /\ (hOp.name = "new" /\ hIn.depth > 63) => hCur.panic
        /\ (hOp.name = "with_depth" /\ hOp.arg > 63) => hCur.panic
        /\ (hOp.name = "increment_depth" /\ depth_of(hRecv) = 63) => hCur.panic

\* C14: with_collider(f) changes only the collider flag: the result has
\* collider() = f and the receiver's axis, depth and path; with_depth(d) for
\* d <= 63 changes only the depth: the result has depth() = d and the
\* receiver's axis, collider flag and path.
C14_SettersTouchOneField ==
    /\ hOp.name = "with_collider" =>
          /\ ~hCur.panic
          /\ values_of(hCur.val) =
                 <<axis_of(hRecv), depth_of(hRecv), path_of(hRecv), hOp.arg>>
    /\ (hOp.name = "with_depth" /\ hOp.arg <= 63) =>
          /\ ~hCur.panic
          /\ values_of(hCur.val) =
                 <<axis_of(hRecv), hOp.arg, path_of(hRecv), collider_of(hRecv)>>

\* the flag cleared on a hash of depth 63 whose path has no ROOT element
C14_Witness ==
    /\ hOp.name = "with_collider" /\ hOp.arg = FALSE
    /\ collider_of(hRecv) /\ depth_of(hRecv) = 63
    /\ \A i \in 1..7 : path_of(hRecv)[i] # "ROOT"
    /\ ~collider_of(hCur.val)

(***************************************************************************)
(* Claims about the hashes of refinement (SpecHashChain).                  *)
(***************************************************************************)
\* C24: two different quadrant sequences of one face get different hashes,
\* and two hashes are equal exactly when their axis, depth, path and
\* collider flag are equal.
C24_DistinctPathsDistinctHashes ==
    hPhase = "chain" =>
        /\ hIn.left # hIn.right => hCur.left # hCur.right
        /\ hCur.left = hCur.right <=> values_of(hCur.left) = values_of(hCur.right)

(***************************************************************************)
(* Claims checked under SpecQuad.                                          *)
(***************************************************************************)

\* C8: subdivide_recursive(d) on a leaf with bounds B leaves a tree with
\* exactly 4^d leaves, each at depth d and carrying the leaf's data, whose
\* bounds lie inside B, have pairwise disjoint interiors and add up to the
\* area of B (no gap, no overlap beyond shared edges).
C8_SubdivideRecursiveTiles ==
    (qOp.name = "subdivide_recursive" /\ qOp.recv.kind = "Leaf") =>
        LET ls == LeavesWithDepth(NodeAt(qTree, qOp.at), 0)
            B == qOp.recv.bounds
            fix(a) == a.sgn * (IF a.e >= 0 - 4 THEN a.m * Pow2(a.e + 4)
                                ELSE a.m \div Pow2(0 - a.e - 4))
            exact(a) == a.e >= 0 - 4 \/ a.m % Pow2(0 - a.e - 4) = 0
            area(r) == (fix(r.max[1]) - fix(r.min[1])) * (fix(r.max[2]) - fix(r.min[2]))
            sum[i \in 0..Len(ls)] ==
                IF i = 0 THEN 0 ELSE sum[i - 1] + area(ls[i].leaf.bounds)
            inside(r) ==
                /\ \A k \in 1..2 : exact(r.min[k]) /\ exact(r.max[k])
                /\ fix(B.min[1]) <= fix(r.min[1]) /\ fix(r.max[1]) <= fix(B.max[1])
                /\ fix(B.min[2]) <= fix(r.min[2]) /\ fix(r.max[2]) <= fix(B.max[2])
            apart(r1, r2) ==
                \/ fix(r1.max[1]) <= fix(r2.min[1]) \/ fix(r2.max[1]) <= fix(r1.min[1])
                \/ fix(r1.max[2]) <= fix(r2.min[2]) \/ fix(r2.max[2]) <= fix(r1.min[2])
        IN  /\ ~qPanic
            /\ Len(ls) = 4 ^ qOp.arg
            /\ \A i \in 1..Len(ls) :
                  /\ ls[i].depth = qOp.arg
                  /\ ls[i].leaf.data = qOp.recv.data
                  /\ inside(ls[i].leaf.bounds)
            /\ \A i, j \in 1..Len(ls) :
                  i < j => apart(ls[i].leaf.bounds, ls[j].leaf.bounds)
            /\ sum[Len(ls)] = area(B)

\* subdivide_recursive(2) was called on a leaf below the root, whose data
\* differs from the root's, and left 16 leaves there
C8_Witness ==
    /\ qOp.name = "subdivide_recursive"
    /\ qOp.recv.kind = "Leaf"
    /\ qOp.arg = 2
    /\ qOp.at # <<>>
    /\ qOp.recv.data # qIn.data
    /\ Len(gather_leaves(NodeAt(qTree, qOp.at))) = 16

\* C9: after any sequence of calls the root keeps the bounds it was built
\* with, a call leaves the bounds of its receiver unchanged, the children of
\* every internal node are, in the order SW, SE, NW, NE, the four quadrants
\* of its bounds split at its center, and the leaves tile the root bounds:
\* they lie inside, their interiors are pairwise disjoint and their areas add
\* up to the root's.
C9_LeavesTileRoot ==
    LET ls == gather_leaves(qTree)
        B == qIn.bounds
        fix(a) == a.sgn * (IF a.e >= 0 - 4 THEN a.m * Pow2(a.e + 4)
                            ELSE a.m \div Pow2(0 - a.e - 4))
        exact(a) == a.e >= 0 - 4 \/ a.m % Pow2(0 - a.e - 4) = 0
        area(r) == (fix(r.max[1]) - fix(r.min[1])) * (fix(r.max[2]) - fix(r.min[2]))
        sum[i \in 0..Len(ls)] ==
            IF i = 0 THEN 0 ELSE sum[i - 1] + area(ls[i].bounds)
        inside(r) ==
            /\ \A k \in 1..2 : exact(r.min[k]) /\ exact(r.max[k])
            /\ fix(B.min[1]) <= fix(r.min[1]) /\ fix(r.max[1]) <= fix(B.max[1])
            /\ fix(B.min[2]) <= fix(r.min[2]) /\ fix(r.max[2]) <= fix(B.max[2])
        apart(r1, r2) ==
            \/ fix(r1.max[1]) <= fix(r2.min[1]) \/ fix(r2.max[1]) <= fix(r1.min[1])
            \/ fix(r1.max[2]) <= fix(r2.min[2]) \/ fix(r2.max[2]) <= fix(r1.min[2])
    IN  (qOp.name # "none") =>
        /\ qTree.bounds = B
        /\ (qOp.name # "new") => NodeAt(qTree, qOp.at).bounds = qOp.recv.bounds
        /\ \A at \in InternalPositions(qTree) :
              LET n == NodeAt(qTree, at)
                  lo == n.bounds.min
                  hi == n.bounds.max
                  c == <<ScalarMul(ScalarAdd(lo[1], hi[1]), Half), ScalarMul(ScalarAdd(lo[2], hi[2]), Half)>>
              IN  /\ n.children[1].bounds = [min |-> lo, max |-> c]
                  /\ n.children[2].bounds = [min |-> <<c[1], lo[2]>>, max |-> <<hi[1], c[2]>>]
                  /\ n.children[3].bounds = [min |-> <<lo[1], c[2]>>, max |-> <<c[1], hi[2]>>]
                  /\ n.children[4].bounds = [min |-> c, max |-> hi]
        /\ \A i \in 1..Len(ls) : inside(ls[i].bounds)
        /\ \A i, j \in 1..Len(ls) : i < j => apart(ls[i].bounds, ls[j].bounds)
        /\ sum[Len(ls)] = area(B)

\* insert_with was called on a leaf below the root of a subdivided tree and
\* split it more than once
C9_Witness ==
    /\ qOp.name = "insert_with"
    /\ qOp.at # <<>>
    /\ qOp.recv.kind = "Leaf"
    /\ Len(gather_leaves(NodeAt(qTree, qOp.at))) > 4
    /\ qIn.bounds.min # Vector2_ZERO

(***************************************************************************)
(* C11.  Subdividing a node that is already Internal (subdivide,           *)
(* subdivided, subdivide_with, subdivided_with, and subdivide_recursive /  *)
(* subdivide_recursive_with with max_depth > 0) panics and leaves the      *)
(* node, children included, exactly as it was.                             *)
(***************************************************************************)
SubdividesReceiver(op) ==
    \/ op.name \in {"subdivide", "subdivided", "subdivide_with", "subdivided_with"}
    \/ op.name = "subdivide_recursive" /\ op.arg > 0
    \/ op.name = "subdivide_recursive_with" /\ op.arg.d > 0

C11_SubdivideInternalPanics ==
    (SubdividesReceiver(qOp) /\ qOp.recv.kind = "Internal")
        => (qPanic /\ NodeAt(qTree, qOp.at) = qOp.recv)

C11_Witness ==
    /\ qOp.name = "subdivide_recursive_with"
    /\ qOp.arg.d > 0
    /\ qOp.recv.kind = "Internal"
    /\ qPanic
    /\ NodeAt(qTree, qOp.at) = qOp.recv

(***************************************************************************)
(* Claims about CubeTree, checked under SpecCube and SpecCubeDeep.         *)
(***************************************************************************)
LeafHashes(tree) == { l.data.hash : l \in Range(CubeTree_leaves(tree)) }

LeafSet(tree) ==
    { [hash |-> l.data.hash, bounds |-> l.bounds] : l \in Range(CubeTree_leaves(tree)) }

\* C5: in every tree produced by CubeTree::new or CubeTree::insert, for any
\* radius and viewer position, no two leaves of the six faces carry the same
\* ChunkHash.
C5_NoDuplicateHashes ==
    cOp.name # "none" => Cardinality(LeafHashes(cTree)) = Len(CubeTree_leaves(cTree))

\* C6: for a fixed radius the leaves (hash and bounds) after insert(P) depend
\* on P only: they are those insert(P) gives on a freshly constructed tree,
\* whatever inserts the tree has seen before.
C6_InsertForgetsHistory ==
    cOp.name = "insert" =>
        LeafSet(cTree) = LeafSet(CubeTree_insert(CubeTree_new(cRadius), cOp.point))

\* an insert into a tree that an insert with another point had refined
C6_Witness ==
    /\ cOp.name = "insert" /\ cOp.prior = "other"
    /\ Len(CubeTree_leaves(cOp.recv)) > 24
    /\ LeafSet(cOp.recv) # LeafSet(cTree)

\* C7 as stated: a tree made by CubeTree::new has exactly six leaves, one per
\* axis, and the leaf of face `axis` carries ChunkHash::new_root(axis).
C7_SixRootLeaves ==
    cOp.name = "new" =>
        /\ Len(CubeTree_leaves(cTree)) = 6
        /\ \A i \in 1..6 : CubeTree_leaves(cTree)[i].data.hash = new_root(Axis_ALL[i]).val

\* C7 as amended: a tree made by CubeTree::new has exactly 24 leaves, four per
\* axis in the order SW, SE, NW, NE, each a quarter of the face; the leaf of
\* quadrant q of face `axis` carries new_root(axis).with_depth(1)
\* .push_quadrant(q): depth 1, path (q, ROOT x 6), collider clear.
C7_TwentyFourQuarterLeaves ==
    cOp.name = "new" =>
        /\ Len(CubeTree_leaves(cTree)) = 24
        /\ \A i \in 1..6 : \A q \in 1..4 :
              /\ values_of(CubeTree_leaves(cTree)[4 * (i - 1) + q].data.hash) =
                     <<Axis_ALL[i], 1,
                       [k \in 1..7 |-> IF k = 1 THEN Quadrant_ALL[q] ELSE "ROOT"], FALSE>>
              /\ CubeTree_leaves(cTree)[4 * (i - 1) + q].bounds =
                     subdivide_bounds(CubeTree_bounds(cRadius))[q][2]

C7_Witness ==
    /\ cOp.name = "new"
    /\ cRadius = ScalarFromInt(100)
    /\ Len(CubeTree_leaves(cTree)) = 24

\* the positions of a tree whose node is internal, the root excepted
RefinedPositions(t) == InternalPositions(t) \ {<<>>}

\* whether position `at` exists in tree t
RECURSIVE HasPosition(_, _)
HasPosition(t, at) ==
    \/ at = <<>>
    \/ t.kind = "Internal" /\ HasPosition(t.children[Head(at)], Tail(at))

\* the depth of the shallowest leaf of t whose rectangle contains x
DepthAt(t, x) ==
    LET ds == { depth_of(l.data.hash) : l \in { k \in Range(gather_leaves(t)) :
                                                  rect_contains(k.bounds, x) } }
    IN  CHOOSE d \in ds : \A e \in ds : d <= e

\* C12 as stated: if the viewer position P1 is strictly closer than P2 to a
\* face location x (here: the centre of a leaf of the tree refined for P2),
\* the leaf containing x after insert(P1) is at least as deep as the leaf
\* containing x after insert(P2).
C12_CloserIsDeeper ==
    (cOp.name = "insert" /\ cOp.prior = "other") =>
        \A i \in 1..6 : \A l \in Range(gather_leaves(cOp.recv.faces[i])) :
            ScalarLt(Vector_distance(l.data.center, cOp.point),
                     Vector_distance(l.data.center, cOp.recv_point))
                => DepthAt(cTree.faces[i], rect_center(l.bounds)) >= depth_of(l.data.hash)

\* C12 as amended: if P1 is at least as close as P2 to the centre on the
\* sphere of a region and of every region above it below the face, and
\* insert(P2) has subdivided the region, then insert(P1) has subdivided it too
\* (so every leaf inside it is at least as deep under P1 as under P2).
C12_CloserToCentresIsDeeper ==
    (cOp.name = "insert" /\ cOp.prior = "other") =>
        \A i \in 1..6 : \A at \in RefinedPositions(cOp.recv.faces[i]) :
            (\A n \in 1..Len(at) :
                ScalarLe(Vector_distance(
                             center_on_sphere(Axis_ALL[i], cRadius,
                                 NodeAt(cOp.recv.faces[i], SubSeq(at, 1, n)).bounds),
                             cOp.point),
                         Vector_distance(
                             center_on_sphere(Axis_ALL[i], cRadius,
                                 NodeAt(cOp.recv.faces[i], SubSeq(at, 1, n)).bounds),
                             cOp.recv_point)))
                => /\ HasPosition(cTree.faces[i], at)
                   /\ NodeAt(cTree.faces[i], at).kind = "Internal"

\* a region that the earlier viewer position had subdivided and to whose
\* centres the later one is at least as close, in a tree that differs
C12_Witness ==
    /\ cOp.name = "insert" /\ cOp.prior = "other"
    /\ LeafSet(cOp.recv) # LeafSet(cTree)
    /\ \E i \in 1..6 : \E at \in RefinedPositions(cOp.recv.faces[i]) :
          /\ Len(at) >= 2
          /\ \A n \in 1..Len(at) :
                ScalarLe(Vector_distance(
                             center_on_sphere(Axis_ALL[i], cRadius,
                                 NodeAt(cOp.recv.faces[i], SubSeq(at, 1, n)).bounds),
                             cOp.point),
                         Vector_distance(
                             center_on_sphere(Axis_ALL[i], cRadius,
                                 NodeAt(cOp.recv.faces[i], SubSeq(at, 1, n)).bounds),
                             cOp.recv_point))
          /\ HasPosition(cTree.faces[i], at)
          /\ NodeAt(cTree.faces[i], at).kind = "Internal"

(***************************************************************************)
(* Claims about the leaf iterators (SpecCube).                             *)
(***************************************************************************)
\* the leaves of a tree, by position
LeavesOf(t) == { NodeAt(t, at) : at \in { p \in Positions(t) : NodeAt(t, p).kind = "Leaf" } }

\* whether a sequence holds each element of a set once and nothing else
HoldsEachOnce(seq, set) == Range(seq) = set /\ Len(seq) = Cardinality(set)

\* C25: iter(), iter_mut() and gather_leaves visit every leaf of a quadtree
\* once and no internal node; iter() yields the leaves in the order of
\* gather_leaves; CubeTreeIter yields the leaves of the six faces, face by
\* face in Axis::ALL order, and then None at every further call.
C25_IteratorsVisitLeavesOnce ==
    cOp.name # "none" =>
        /\ \A i \in 1..6 :
              /\ HoldsEachOnce(gather_leaves(cTree.faces[i]), LeavesOf(cTree.faces[i]))
              /\ HoldsEachOnce(QuadTreeLeafIterMut(<<cTree.faces[i]>>, <<>>),
                               LeavesOf(cTree.faces[i]))
              /\ QuadTreeLeafIter(<<cTree.faces[i]>>, <<>>) = gather_leaves(cTree.faces[i])
              /\ \A l \in Range(gather_leaves(cTree.faces[i])) :
                    axis_of(l.data.hash) = Axis_ALL[i]
        /\ CubeTreeIter_calls(CubeTreeIter_new(cTree), <<>>, 2)
               = CubeTree_leaves(cTree) \o <<None, None, None>>
        /\ CubeTree_iter(cTree) = CubeTree_leaves(cTree)

\* a refined tree whose iter_mut order is not the order of iter
C25_Witness ==
    /\ cOp.name = "insert"
    /\ Len(CubeTree_leaves(cTree)) > 24
    /\ \E i \in 1..6 :
          QuadTreeLeafIterMut(<<cTree.faces[i]>>, <<>>) # gather_leaves(cTree.faces[i])

(***************************************************************************)
(* Claims about refinement, checked under SpecCubeWide.                    *)
(***************************************************************************)
\* the side of a node's square
NodeSize(n) == rect_size(n.bounds)[1]

\* whether the viewer is farther from the node's centre on the sphere than
\* size * THRESHOLD
ViewerIsFar(axis, n, point) ==
    ScalarGt(Vector_distance(center_on_sphere(axis, cRadius, n.bounds), point),
             ScalarMul(NodeSize(n), THRESHOLD))

LeafPositions(t) == { at \in Positions(t) : NodeAt(t, at).kind = "Leaf" }

\* C21: after insert(P) every leaf is either of size <= MIN_SIZE with the
\* collider flag set, or larger than MIN_SIZE with the flag clear and its
\* centre farther than size * THRESHOLD from P; every internal node below a
\* face root is larger than MIN_SIZE and within size * THRESHOLD of P.
C21_LeavesStopForAReason ==
    cOp.name = "insert" =>
        \A i \in 1..6 :
            /\ \A l \in Range(gather_leaves(cTree.faces[i])) :
                  IF ScalarLe(NodeSize(l), MIN_SIZE)
                  THEN collider_of(l.data.hash)
                  ELSE /\ ~collider_of(l.data.hash)
                       /\ ScalarGt(Vector_distance(l.data.center, cOp.point),
                                   ScalarMul(NodeSize(l), THRESHOLD))
            /\ \A at \in RefinedPositions(cTree.faces[i]) :
                  /\ ScalarGt(NodeSize(NodeAt(cTree.faces[i], at)), MIN_SIZE)
                  /\ ~ViewerIsFar(Axis_ALL[i], NodeAt(cTree.faces[i], at), cOp.point)

\* a tree with leaves of both kinds and a refined region
C21_Witness ==
    /\ cOp.name = "insert"
    /\ \E i \in 1..6 : RefinedPositions(cTree.faces[i]) # {}
    /\ \E l \in Range(CubeTree_leaves(cTree)) : collider_of(l.data.hash)
    /\ \E l \in Range(CubeTree_leaves(cTree)) :
          ~collider_of(l.data.hash) /\ ScalarGt(NodeSize(l), MIN_SIZE)

\* C22 as stated: a face whose root is larger than MIN_SIZE and whose centre
\* is farther than size * THRESHOLD from P is, after insert(P), a single leaf
\* of depth 0 carrying ChunkHash::new_root(axis).
C22_FarFaceIsRootLeaf ==
    cOp.name = "insert" =>
        \A i \in 1..6 :
            (/\ ScalarGt(ScalarMul(cRadius, ScalarTwo), MIN_SIZE)
             /\ ViewerIsFar(Axis_ALL[i], [bounds |-> CubeTree_bounds(cRadius)], cOp.point))
                => /\ cTree.faces[i].kind = "Leaf"
                   /\ cTree.faces[i].data.hash = new_root(Axis_ALL[i]).val

\* the four quarters of a face are larger than MIN_SIZE and the viewer is far
\* from each
FarFromQuarters(i, point) ==
    \A q \in 1..4 :
        /\ ScalarGt(cRadius, MIN_SIZE)
        /\ ViewerIsFar(Axis_ALL[i], [bounds |-> subdivide_bounds(CubeTree_bounds(cRadius))[q][2]],
                       point)

\* C22 as amended: insert(P) starts every face from a root subdivided once;
\* a face whose four quarters are larger than MIN_SIZE and farther than
\* size * THRESHOLD from P is, after insert(P), four leaves of depth 1, the
\* leaf of quadrant q carrying new_root(axis).with_depth(1).push_quadrant(q).
C22_FarFaceIsFourLeaves ==
    cOp.name = "insert" =>
        \A i \in 1..6 :
            FarFromQuarters(i, cOp.point)
                => /\ cTree.faces[i].kind = "Internal"
                   /\ \A q \in 1..4 :
                         /\ cTree.faces[i].children[q].kind = "Leaf"
                         /\ cTree.faces[i].children[q].bounds =
                                subdivide_bounds(CubeTree_bounds(cRadius))[q][2]
                         /\ cTree.faces[i].children[q].data.hash =
                                push_quadrant(with_depth(new_root(Axis_ALL[i]).val, 1).val,
                                              Quadrant_ALL[q])
                         /\ depth_of(cTree.faces[i].children[q].data.hash) = 1
                         /\ ~collider_of(cTree.faces[i].children[q].data.hash)

\* an insert into a refined tree that leaves one face far from the viewer and
\* refines another
C22_Witness ==
    /\ cOp.name = "insert"
    /\ Len(CubeTree_leaves(cOp.recv)) > 24
    /\ \E i \in 1..6 : FarFromQuarters(i, cOp.point)
    /\ \E i \in 1..6 : RefinedPositions(cTree.faces[i]) # {}

\* C29: after new or insert the hash of every leaf tells where the leaf is:
\* axis() is its face, depth() the number of subdivisions above it, its size
\* is 2 * radius / 2^depth, path()[k] is the quadrant taken k levels above
\* the leaf, and the entries of path() past the depth are ROOT.
C29_HashMatchesPosition ==
    cOp.name # "none" =>
        \A i \in 1..6 : \A at \in LeafPositions(cTree.faces[i]) :
            /\ axis_of(NodeAt(cTree.faces[i], at).data.hash) = Axis_ALL[i]
            /\ depth_of(NodeAt(cTree.faces[i], at).data.hash) = Len(at)
            /\ NodeSize(NodeAt(cTree.faces[i], at)) =
                   ScalarDiv(ScalarMul(cRadius, ScalarTwo), ScalarFromInt(Pow2(Len(at))))
            /\ \A k \in 0..6 :
                  path_of(NodeAt(cTree.faces[i], at).data.hash)[k + 1] =
                      IF k < Len(at) THEN Quadrant_ALL[at[Len(at) - k]] ELSE "ROOT"

\* a tree with a leaf of depth 1 and a leaf deeper than the seven quadrants
\* of a path
C29_Witness ==
    /\ cOp.name = "insert"
    /\ \E i \in 1..6 : \E at \in LeafPositions(cTree.faces[i]) : Len(at) = 1
    /\ \E i \in 1..6 : \E at \in LeafPositions(cTree.faces[i]) : Len(at) > 7

\* the number of halvings that bring `size` down to MIN_SIZE
RECURSIVE Halvings(_)
Halvings(size) ==
    IF ScalarLe(size, MIN_SIZE) THEN 0 ELSE 1 + Halvings(ScalarMul(size, Half))

\* C30 as stated: after insert(P) no leaf is smaller than MIN_SIZE / 2 and
\* no leaf is deeper than the number of halvings that bring 2 * radius down
\* to MIN_SIZE.
C30_DepthBoundedByHalvings ==
    cOp.name = "insert" =>
        \A l \in Range(CubeTree_leaves(cTree)) :
            /\ ScalarLe(ScalarMul(MIN_SIZE, Half), NodeSize(l))
            /\ depth_of(l.data.hash) <= Halvings(ScalarMul(cRadius, ScalarTwo))

\* C30 as amended: the root of a face is subdivided once whatever its size
\* and below it a region of size <= MIN_SIZE is never subdivided; no leaf is
\* smaller than the lesser of radius and MIN_SIZE / 2, and no leaf is deeper
\* than the halvings that bring 2 * radius down to MIN_SIZE, or 1 if that
\* is more, whatever P.
C30_DepthBoundedBelowRoot ==
    cOp.name = "insert" =>
        /\ \E deepest \in {1 + Halvings(cRadius)} :
           \E least \in {ScalarMin(cRadius, ScalarMul(MIN_SIZE, Half))} :
              \A l \in Range(CubeTree_leaves(cTree)) :
                  /\ ScalarLe(least, NodeSize(l))
                  /\ depth_of(l.data.hash) >= 1
                  /\ depth_of(l.data.hash) <= deepest
        /\ \A i \in 1..6 : \A at \in RefinedPositions(cTree.faces[i]) :
              ScalarGt(NodeSize(NodeAt(cTree.faces[i], at)), MIN_SIZE)

\* refinement has reached the bound: a leaf as deep as the halvings allow,
\* of the size of the floor
C30_Witness ==
    /\ cOp.name = "insert"
    /\ Halvings(cRadius) > 1
    /\ \E l \in Range(CubeTree_leaves(cTree)) :
          /\ depth_of(l.data.hash) = 1 + Halvings(cRadius)
          /\ NodeSize(l) = MIN_SIZE

(***************************************************************************)
(* Claims about ChunkMeshBuilder (SpecMesh).                               *)
(***************************************************************************)
\* the vertex indices of the four corners of grid cell (x, y)
CellCorners(x, y, V) == {x + y * V, x + y * V + 1, x + (y + 1) * V, x + (y + 1) * V + 1}

\* the k-th group of six indices, as a set
IndexGroup(indices, k) == { indices[6 * k + j] : j \in 1..6 }

\* C20: for every subdivision count S, build completes without an
\* out-of-bounds buffer access and returns (S+2) x (S+2) positions, normals
\* and uvs and six indices for each of the (S+1) x (S+1) grid cells, the six
\* of a cell naming that cell's corners and no cell taking another's place.
C20_BuildFillsGrid ==
    mMesh.why # "not built" =>
        /\ ~mMesh.panic
        /\ Len(mMesh.positions) = VERTEX_COUNT(mBuilder) * VERTEX_COUNT(mBuilder)
        /\ Len(mMesh.normals) = VERTEX_COUNT(mBuilder) * VERTEX_COUNT(mBuilder)
        /\ Len(mMesh.uvs) = VERTEX_COUNT(mBuilder) * VERTEX_COUNT(mBuilder)
        /\ Len(mMesh.indices) = 6 * (mBuilder.SUBDIVISIONS + 1) * (mBuilder.SUBDIVISIONS + 1)
        /\ \A x, y \in 0..mBuilder.SUBDIVISIONS :
              Cardinality({ k \in 0..((Len(mMesh.indices) \div 6) - 1) :
                              /\ IndexGroup(mMesh.indices, k)
                                    \subseteq CellCorners(x, y, VERTEX_COUNT(mBuilder))
                              /\ x + y * VERTEX_COUNT(mBuilder)
                                    \in IndexGroup(mMesh.indices, k) }) = 1

\* the sample coordinates of grid point (x, y) of a leaf as build computes them
SampleAt(self, bounds, size, x, y) ==
    grid_sample(build_corner(bounds.min, size),
                build_step(build_corner(bounds.min, size), build_corner(bounds.max, size),
                           VERTEX_COUNT(self) - 1),
                x, y)

\* the samples on one edge of a leaf: "W" x = 0, "E" x = max, "S" y = 0, "N" y = max
EdgeSamples(self, bounds, side) ==
    { SampleAt(self, bounds, ScalarMul(self.radius, ScalarTwo),
               CASE side = "W" -> 0 [] side = "E" -> VERTEX_COUNT(self) - 1 [] OTHER -> k,
               CASE side = "S" -> 0 [] side = "N" -> VERTEX_COUNT(self) - 1 [] OTHER -> k)
        : k \in 0..(VERTEX_COUNT(self) - 1) }

Opposite(side) == CASE side = "W" -> "E" [] side = "E" -> "W" [] side = "S" -> "N" [] side = "N" -> "S"

\* 1 for the sides that run along y, 2 for the sides that run along x
Along(side) == IF side \in {"W", "E"} THEN 2 ELSE 1

\* fine is a smaller leaf lying against the given side of coarse
LiesAgainst(coarse, fine, side) ==
    /\ ScalarLt(rect_size(fine)[1], rect_size(coarse)[1])
    /\ CASE side = "W" -> fine.max[1] = coarse.min[1]
         [] side = "E" -> fine.min[1] = coarse.max[1]
         [] side = "S" -> fine.max[2] = coarse.min[2]
         [] side = "N" -> fine.min[2] = coarse.max[2]
    /\ ScalarLe(coarse.min[Along(side)], fine.min[Along(side)])
    /\ ScalarLe(fine.max[Along(side)], coarse.max[Along(side)])

\* the samples of the coarse leaf's edge that fall on the stretch of it that
\* the fine leaf covers, and are not among the fine leaf's samples there
SeamGaps(self, coarse, fine, side) ==
    { s \in EdgeSamples(self, coarse, side) :
        /\ ScalarLe(build_corner(fine.min, ScalarMul(self.radius, ScalarTwo))[Along(side)],
                    s[Along(side)])
        /\ ScalarLe(s[Along(side)],
                    build_corner(fine.max, ScalarMul(self.radius, ScalarTwo))[Along(side)])
        /\ s \notin EdgeSamples(self, fine, Opposite(side)) }

CacheKeys == { c.hash : c \in wCache }

CacheEntities == { c.entity : c \in wCache }

\* C1: after every generate_meshes pass the keys of the body's ChunkCache
\* are exactly the hashes of the leaves that passed the visibility filter of
\* that pass, each key once.
C1_CacheIsSurvivors ==
    wPass.n > 0 =>
        /\ CacheKeys = wPass.survivors
        /\ Cardinality(wCache) = Cardinality(CacheKeys)

\* a later pass has evicted entries and kept or added others
C1_Witness ==
    /\ wPass.n > 1
    /\ wPass.survivors # {}
    /\ \E i \in 1..Len(wPass.issued) : wPass.issued[i].cmd = "mark"
    /\ CacheKeys = wPass.survivors

\* C15: the result of a finished job is applied all or nothing: a placeholder
\* that still exists gets its mesh and, exactly when its hash has the
\* collider flag, its collider in the same step; the result for a despawned
\* placeholder is dropped and changes no entity.
C15_ResultAllOrNothing ==
    \A e \in 1..Len(wChunks) :
        /\ wChunks[e].mesh <=> wChunks[e].job = "applied"
        /\ wChunks[e].collider <=> (wChunks[e].mesh /\ collider_of(wChunks[e].hash))
        /\ wChunks[e].job = "discarded" => ~wChunks[e].alive

\* results were applied to a placeholder with and to one without the
\* collider flag, and one result was dropped
C15_Witness ==
    /\ \E e \in 1..Len(wChunks) : wChunks[e].mesh /\ wChunks[e].collider
    /\ \E e \in 1..Len(wChunks) : wChunks[e].mesh /\ ~wChunks[e].collider
    /\ \E e \in 1..Len(wChunks) : wChunks[e].job = "discarded"

\* C16: within one pass every DespawnChunk marking is issued before any
\* placeholder is spawned or job enqueued.
C16_TeardownBeforeSpawn ==
    \A i, j \in 1..Len(wPass.issued) :
        (wPass.issued[i].cmd = "spawn" /\ wPass.issued[j].cmd = "mark") => j < i

\* a pass that both marked and spawned
C16_Witness ==
    /\ \E i \in 1..Len(wPass.issued) : wPass.issued[i].cmd = "mark"
    /\ \E i \in 1..Len(wPass.issued) : wPass.issued[i].cmd = "spawn"

\* C17: no job is cancelled before it completes: every job enqueued by
\* generate_meshes runs to its end, also when its placeholder is despawned.
C17_NoJobCancelled ==
    \A e \in 1..Len(wChunks) : wChunks[e].job # "cancelled"

\* C18: a cycle of track_target_position in which the viewer's displacement
\* from the last accepted position does not exceed the trigger distance
\* leaves the tree, the remembered position and the cache as they are and
\* triggers no GenerateMeshes.
C18_SmallMoveIsIgnored ==
    [][(/\ wPass.n > 0
        /\ wTree # NoTree
        /\ ScalarLe(Vector_distance(wTarget, wPrev),
                    ScalarMul(ScalarSub(Vector_distance(wTarget, Vector_ZERO), WorldRadius),
                              ScalarDiv(ScalarOne, ScalarFromInt(100)))))
        => (wPass' = wPass /\ wTree' = wTree /\ wPrev' = wPrev /\ wCache' = wCache)]_vars

\* no entity is waiting to be despawned
NoPendingDespawn == \A e \in 1..Len(wChunks) : ~(wChunks[e].alive /\ wChunks[e].marked)

\* C19: a cache entry whose hash does not survive a pass leaves the cache in
\* that pass and its entity is marked DespawnChunk; a marked entity is
\* eventually despawned by handle_despawn_chunks, stays despawned, and is
\* never in the cache again.
C19_EvictedAreDespawned ==
    /\ [](\A e \in 1..Len(wChunks) :
            /\ (wChunks[e].alive /\ e \notin CacheEntities) => wChunks[e].marked
            /\ wChunks[e].marked => e \notin CacheEntities)
    /\ [][\A e \in 1..Len(wChunks) :
            /\ wChunks[e].marked => wChunks'[e].marked
            /\ ~wChunks[e].alive => ~wChunks'[e].alive]_vars
    /\ []<>NoPendingDespawn

\* an evicted entity has been despawned
C19_Witness ==
    \E e \in 1..Len(wChunks) : wChunks[e].marked /\ ~wChunks[e].alive

\* the chunk entities that exist and do not carry DespawnChunk
LiveChunks == { e \in 1..Len(wChunks) : wChunks[e].alive /\ ~wChunks[e].marked }

\* C27: in every state the entities in the ChunkCache are exactly the chunk
\* entities that exist and are not marked DespawnChunk, no two keys map to
\* the same entity, and no cached entity has been despawned.
C27_OneEntryPerLiveChunk ==
    /\ CacheEntities = LiveChunks
    /\ Cardinality(wCache) = Cardinality(CacheEntities)
    /\ \A c \in wCache : wChunks[c.entity].alive /\ wChunks[c.entity].hash = c.hash

\* the cache holds entries while one evicted entity waits for its despawn and
\* another is gone
C27_Witness ==
    /\ wCache # {}
    /\ \E e \in 1..Len(wChunks) : wChunks[e].alive /\ wChunks[e].marked
    /\ \E e \in 1..Len(wChunks) : ~wChunks[e].alive

\* C28: a hash that is cached before a pass and survives the filter of the
\* pass keeps its entity: the entry stays, the entity is as it was (its job
\* and what the job installed included), and the pass issues no spawn for the
\* hash and no DespawnChunk for the entity.
C28_SurvivorsKeepEntity ==
    [][wPass'.n = wPass.n + 1 =>
          \A c \in wCache :
              c.hash \in wPass'.survivors =>
                  /\ c \in wCache'
                  /\ wChunks'[c.entity] = wChunks[c.entity]
                  /\ \A i \in 1..Len(wPass'.issued) :
                        /\ wPass'.issued[i].hash # c.hash
                        /\ wPass'.issued[i].entity # c.entity]_vars

\* after a later pass for a viewer position the cache holds an entity of an
\* earlier pass, with the mesh its job installed
C28_Witness ==
    /\ wPass.n > 1
    /\ wPass.target # Vector_MAX
    /\ \E c \in wCache :
          /\ c.hash \in wPass.survivors
          /\ wChunks[c.entity].batch < wPass.n
          /\ wChunks[c.entity].job = "applied"
          /\ wChunks[c.entity].mesh

(***************************************************************************)
(* Claims about a pass over leaves with equal hashes (SpecTwin).           *)
(***************************************************************************)
\* the pairs of filtered leaves of the latest pass that carry the same hash,
\* the earlier leaf first
TwinLeaves(filtered) ==
    { p \in (1..Len(filtered)) \X (1..Len(filtered)) :
        p[1] < p[2] /\ filtered[p[1]].data.hash = filtered[p[2]].data.hash }

\* the placeholders the latest pass spawned for filtered leaf i
SpawnedFor(i) ==
    { s \in Range(wPass.issued) : s.cmd = "spawn" /\ s.leaf = i }

C26_TriggerReconcilesItsBody ==
    [][wPass'.n = wPass.n + 1 =>
          /\ \A b \in 1..2 : b # wPass'.entity => wCache'[b] = wCache[b]
          /\ \A e \in 1..Len(wChunks') :
                /\ e > Len(wChunks) => wChunks'[e].body = wPass'.entity
                /\ wChunks'[e].parent = wChunks'[e].body
                /\ e <= Len(wChunks) /\ wChunks[e].body # wPass'.entity
                      => wChunks'[e] = wChunks[e]]_vars

====
